---- MODULE Spec2Model ----
(***************************************************************************)
(* A model of the pssg static-site build pipeline of arch-docs:            *)
(*   - internal/pssg/entity    (ToSlug)                                    *)
(*   - internal/pssg/taxonomy  (BuildAll, buildOne, extractValues,         *)
(*                              ComputePagination, HubPageURL)             *)
(*   - internal/pssg/config    (applyDefaults)                             *)
(*   - internal/pssg/build     (Builder.Build and its render stages)       *)
(*                                                                         *)
(* Go strings are modelled as sequences of byte values (code points), so   *)
(* that lower-casing, the slug regexp and the byte-wise string order are   *)
(* computed, not assumed.  Pointers to entities are modelled as indices    *)
(* into the loaded entity sequence.                                        *)
(***************************************************************************)
EXTENDS Integers, Sequences, FiniteSets, TLC

(***************************************************************************)
(* Go primitives                                                           *)
(***************************************************************************)

\* Go integer division truncates toward zero.
GoDiv(a, b) ==
  IF (a >= 0) = (b > 0)
  THEN (IF a >= 0 THEN a ELSE -a) \div (IF b > 0 THEN b ELSE -b)
  ELSE -((IF a >= 0 THEN a ELSE -a) \div (IF b > 0 THEN b ELSE -b))

\* Byte-wise order of Go strings (operator < on string).
RECURSIVE StrLess(_, _)
StrLess(a, b) ==
  IF b = <<>> THEN FALSE
  ELSE IF a = <<>> THEN TRUE
  ELSE IF Head(a) # Head(b) THEN Head(a) < Head(b)
  ELSE StrLess(Tail(a), Tail(b))

\* All arrangements of the elements of a finite set as a sequence: the
\* orders in which a Go map with that key set may be ranged over.
MapOrders(S) ==
  {f \in [1..Cardinality(S) -> S] : \A x \in S : \E i \in DOMAIN f : f[i] = x}

\* All rearrangements of a sequence (as sequences of its elements).
Rearrangements(seq) ==
  LET n == Len(seq)
      P == {f \in [1..n -> 1..n] : \A x \in 1..n : \E i \in 1..n : f[i] = x}
  IN  {[i \in 1..n |-> seq[p[i]]] : p \in P}

(***************************************************************************)
(* entity.ToSlug                                                           *)
(***************************************************************************)

\* strings.ToLower on one byte: 'A'..'Z' (65..90) map to 'a'..'z'.
ToLowerByte(c) == IF c >= 65 /\ c <= 90 THEN c + 32 ELSE c

ToLower(s) == [i \in 1..Len(s) |-> ToLowerByte(s[i])]

\* The complement of the character class of nonAlnum: [a-z0-9].
IsAlnum(c) == (c >= 97 /\ c <= 122) \/ (c >= 48 /\ c <= 57)

\* nonAlnum.ReplaceAllString(s, "-"): every maximal run of bytes outside
\* [a-z0-9] becomes a single '-' (45).
RECURSIVE ReplaceNonAlnum(_)
ReplaceNonAlnum(s) ==
  IF s = <<>> THEN <<>>
  ELSE IF IsAlnum(Head(s)) THEN <<Head(s)>> \o ReplaceNonAlnum(Tail(s))
  ELSE IF Len(s) >= 2 /\ ~IsAlnum(s[2]) THEN ReplaceNonAlnum(Tail(s))
  ELSE <<45>> \o ReplaceNonAlnum(Tail(s))

\* strings.Trim(s, "-")
RECURSIVE TrimLeftHyphen(_)
TrimLeftHyphen(s) ==
  IF s # <<>> /\ Head(s) = 45 THEN TrimLeftHyphen(Tail(s)) ELSE s

RECURSIVE TrimRightHyphen(_)
TrimRightHyphen(s) ==
  IF s # <<>> /\ s[Len(s)] = 45
  THEN TrimRightHyphen(SubSeq(s, 1, Len(s) - 1)) ELSE s

TrimHyphen(s) == TrimRightHyphen(TrimLeftHyphen(s))

ToSlug(s) == TrimHyphen(ReplaceNonAlnum(ToLower(s)))

(***************************************************************************)
(* Dynamically typed values (interface{}) of entity fields and of the      *)
(* enrichment override table.                                              *)
(*   t = "str"   : a Go string, in s                                       *)
(*   t = "list"  : a []interface{}, its elements in items                  *)
(*   t = "map"   : a map[string]interface{}, in m                          *)
(*   t = "other" : any other dynamic type (number, bool, nil)              *)
(***************************************************************************)
StrVal(s)    == [t |-> "str",   s |-> s,    items |-> <<>>, m |-> <<>>]
ListVal(xs)  == [t |-> "list",  s |-> <<>>, items |-> xs,   m |-> <<>>]
MapVal(f)    == [t |-> "map",   s |-> <<>>, items |-> <<>>, m |-> f]
OtherVal     == [t |-> "other", s |-> <<>>, items |-> <<>>, m |-> <<>>]

\* A map key is the list of the parts that strings.Split(key, "[].") yields;
\* a plain key k is <<k>>.
Key(k) == <<k>>

(***************************************************************************)
(* taxonomy.toStringSlice                                                  *)
(***************************************************************************)
RECURSIVE StringItems(_)
StringItems(items) ==
  IF items = <<>> THEN <<>>
  ELSE IF Head(items).t = "str"
       THEN <<Head(items).s>> \o StringItems(Tail(items))
       ELSE StringItems(Tail(items))

toStringSlice(v) ==
  IF v.t = "list" THEN StringItems(v.items)
  ELSE IF v.t = "str" THEN <<v.s>>
  ELSE <<>>

(***************************************************************************)
(* taxonomy.getEnrichmentOverrides                                         *)
(*   field is the override path as the parts of                            *)
(*   strings.Split(field, "[].")                                           *)
(***************************************************************************)
RECURSIVE SubFieldStrings(_, _)
SubFieldStrings(items, subField) ==
  IF items = <<>> THEN <<>>
  ELSE LET item == Head(items)
           rest == SubFieldStrings(Tail(items), subField)
       IN  IF item.t = "map" /\ subField \in DOMAIN item.m
              /\ item.m[subField].t = "str" /\ item.m[subField].s # <<>>
           THEN <<item.m[subField].s>> \o rest
           ELSE rest

getEnrichmentOverrides(data, field) ==
  IF Len(field) # 2
  THEN IF field \in DOMAIN data THEN toStringSlice(data[field]) ELSE <<>>
  ELSE LET arrayField == Key(field[1])
           subField   == Key(field[2])
       IN  IF arrayField \notin DOMAIN data THEN <<>>
           ELSE IF data[arrayField].t # "list" THEN <<>>
           ELSE SubFieldStrings(data[arrayField].items, subField)

(***************************************************************************)
(* taxonomy.extractValues                                                  *)
(*   e.Fields is a function from field names to values; NoField is the     *)
(*   override path of a definition without enrichment_override_field.      *)
(***************************************************************************)
NoField == <<"">>

rawFieldValues(e, tc) ==
  IF tc.Field \notin DOMAIN e.Fields THEN <<>>
  ELSE LET v == e.Fields[tc.Field]
       IN  IF tc.MultiValue THEN toStringSlice(v)
           ELSE IF v.t = "str" /\ v.s # <<>> THEN <<v.s>>
           ELSE <<>>

extractValues(e, tc, enrichmentData) ==
  LET useOverride ==
        /\ tc.EnrichmentOverrideField # NoField
        /\ e.Slug \in DOMAIN enrichmentData
        /\ Len(getEnrichmentOverrides(enrichmentData[e.Slug],
                                      tc.EnrichmentOverrideField)) > 0
  IN  IF useOverride
      THEN getEnrichmentOverrides(enrichmentData[e.Slug],
                                  tc.EnrichmentOverrideField)
      ELSE rawFieldValues(e, tc)

(***************************************************************************)
(* taxonomy.buildOne                                                       *)
(*   groups is the map[string]*Entry of the grouping loop; an Entry's      *)
(*   Entities are pointers (indices into entities).                        *)
(***************************************************************************)
\* Variant in which every value of a slug replaces the Entry's name.
RECURSIVE groupValues_lastName(_, _, _)
groupValues_lastName(groups, values, e) ==
  IF values = <<>> THEN groups
  ELSE LET val  == Head(values)
           slug == ToSlug(val)
           next == IF slug = <<>> THEN groups
                   ELSE IF slug \in DOMAIN groups
                   THEN [groups EXCEPT ![slug].Entities = Append(@, e),
                                       ![slug].Name = val]
                   ELSE groups @@
                        (slug :> [Name |-> val, Slug |-> slug, Entities |-> <<e>>])
       IN  groupValues_lastName(next, Tail(values), e)

RECURSIVE groupValues(_, _, _)
groupValues(groups, values, e) ==
  IF values = <<>> THEN groups
  ELSE LET val  == Head(values)
           slug == ToSlug(val)
           next == IF slug = <<>> THEN groups
                   ELSE IF slug \in DOMAIN groups
                   THEN [groups EXCEPT ![slug].Entities = Append(@, e)]
                   ELSE groups @@
                        (slug :> [Name |-> val, Slug |-> slug, Entities |-> <<e>>])
       IN  groupValues(next, Tail(values), e)

\* Variant that groups the entities of an inverted definition like those
\* of any other.
RECURSIVE groupEntities_ignoreInvert(_, _, _, _, _)
groupEntities_ignoreInvert(groups, entities, i, tc, enrichmentData) ==
  IF i > Len(entities) THEN groups
  ELSE groupEntities_ignoreInvert(
         groupValues(groups, extractValues(entities[i], tc, enrichmentData), i),
         entities, i + 1, tc, enrichmentData)

RECURSIVE groupEntities(_, _, _, _, _)
groupEntities(groups, entities, i, tc, enrichmentData) ==
  IF i > Len(entities) THEN groups
  ELSE LET values == extractValues(entities[i], tc, enrichmentData)
           next   == IF tc.Invert THEN groups
                     ELSE groupValues(groups, values, i)
       IN  groupEntities(next, entities, i + 1, tc, enrichmentData)

\* A threshold test that is off by one (> for >=).
filterMinEntities_strict(groups, order, tc) ==
  LET all == [k \in 1..Len(order) |-> groups[order[k]]]
  IN  SelectSeq(all, LAMBDA entry : Len(entry.Entities) > tc.MinEntities)

\* Lines 94-99: range over the map in iteration order `order`, keeping the
\* entries with at least tc.MinEntities members.
filterMinEntities(groups, order, tc) ==
  LET all == [k \in 1..Len(order) |-> groups[order[k]]]
  IN  SelectSeq(all, LAMBDA entry : Len(entry.Entities) >= tc.MinEntities)

\* The sort left out: the entries stay in map iteration order.
sortBySlug_none(entries) == {entries}

\* sort.Slice(entries, less-by-Slug): not a stable sort, so the result is
\* any rearrangement in which no entry precedes one with a smaller slug.
sortBySlug(entries) ==
  {p \in Rearrangements(entries) :
     \A i, j \in 1..Len(p) : i < j => ~StrLess(p[j].Slug, p[i].Slug)}

\* The set of Taxonomy values buildOne may return: one per iteration order
\* of the group map and per outcome of the sort.
buildOne(entities, tc, enrichmentData) ==
  LET groups == groupEntities(<<>>, entities, 1, tc, enrichmentData)
  IN  UNION {
        {[Name |-> tc.Name, Config |-> tc, Entries |-> sorted] :
           sorted \in sortBySlug(filterMinEntities(groups, order, tc))} :
        order \in MapOrders(DOMAIN groups)}

\* taxonomy.BuildAll: one Taxonomy per definition, in definition order.
RECURSIVE BuildAll(_, _, _)
BuildAll(entities, taxConfigs, enrichmentData) ==
  IF taxConfigs = <<>> THEN {<<>>}
  ELSE {<<first>> \o rest :
          first \in buildOne(entities, Head(taxConfigs), enrichmentData),
          rest  \in BuildAll(entities, Tail(taxConfigs), enrichmentData)}

(***************************************************************************)
(* taxonomy.ComputePagination, taxonomy.HubPageURL                         *)
(***************************************************************************)

\* fmt's %d of a non-negative int, as its decimal digits.
RECURSIVE Itoa(_)
Itoa(n) == IF n < 10 THEN <<48 + n>> ELSE Itoa(n \div 10) \o <<48 + (n % 10)>>

\* "/", ".html", "-page-"
Slash == <<47>>
DotHtml == <<46, 104, 116, 109, 108>>
DashPage == <<45, 112, 97, 103, 101, 45>>

\* A URL template that gives page 1 a page suffix too.
HubPageURL_suffixAlways(taxonomyName, entrySlug, page) ==
  Slash \o taxonomyName \o Slash \o entrySlug \o DashPage \o Itoa(page)
  \o DotHtml

HubPageURL(taxonomyName, entrySlug, page) ==
  IF page = 1
  THEN Slash \o taxonomyName \o Slash \o entrySlug \o DotHtml
  ELSE Slash \o taxonomyName \o Slash \o entrySlug \o DashPage \o Itoa(page)
       \o DotHtml

\* A page count without the floor of one page.
paginationTotalPages_noFloor(total, perPage) ==
  GoDiv(total + perPage - 1, perPage)

\* Lines 201-205: the page count, at least 1.
paginationTotalPages(total, perPage) ==
  LET totalPages == GoDiv(total + perPage - 1, perPage)
  IN  IF totalPages = 0 THEN 1 ELSE totalPages

\* A window whose end is not clamped to the member count.
ComputePagination_unclamped(entry, page, perPage, taxonomyName) ==
  LET total      == Len(entry.Entities)
      totalPages == paginationTotalPages(total, perPage)
      start      == (page - 1) * perPage
  IN  [CurrentPage |-> page,
       TotalPages  |-> totalPages,
       TotalItems  |-> total,
       StartIndex  |-> start,
       EndIndex    |-> start + perPage,
       PrevURL     |-> <<>>,
       NextURL     |-> <<>>,
       PageURLs    |-> <<>>]

ComputePagination(entry, page, perPage, taxonomyName) ==
  LET total      == Len(entry.Entities)
      totalPages == paginationTotalPages(total, perPage)
      start      == (page - 1) * perPage
      end        == IF start + perPage > total THEN total ELSE start + perPage
  IN  [CurrentPage |-> page,
       TotalPages  |-> totalPages,
       TotalItems  |-> total,
       StartIndex  |-> start,
       EndIndex    |-> end,
       PrevURL     |-> IF page > 1
                       THEN HubPageURL(taxonomyName, entry.Slug, page - 1)
                       ELSE <<>>,
       NextURL     |-> IF page < totalPages
                       THEN HubPageURL(taxonomyName, entry.Slug, page + 1)
                       ELSE <<>>,
       PageURLs    |-> [p \in 1..totalPages |->
                          [Number |-> p,
                           URL    |-> HubPageURL(taxonomyName, entry.Slug, p)]]]

(***************************************************************************)
(* build.Builder.renderTaxonomyPages: the hub pages of one Entry           *)
(***************************************************************************)

\* Lines 593-596: the number of hub pages the loop renders.
hubTotalPages(entry, perPage) ==
  LET totalPages == GoDiv(Len(entry.Entities) + perPage - 1, perPage)
  IN  IF totalPages = 0 THEN 1 ELSE totalPages

\* Go's s[lo:hi] on a slice (0-based, hi exclusive).
GoSlice(seq, lo, hi) == SubSeq(seq, lo + 1, hi)

\* Lines 622-632 and 694-711: one pass of the page loop, up to the file
\* name and the sitemap path of the page.
hubPage(taxName, entry, page, perPage) ==
  LET pagination == ComputePagination(entry, page, perPage, taxName)
      end        == IF pagination.EndIndex > Len(entry.Entities)
                    THEN Len(entry.Entities) ELSE pagination.EndIndex
      filename   == IF page = 1 THEN entry.Slug \o DotHtml
                    ELSE entry.Slug \o DashPage \o Itoa(page) \o DotHtml
  IN  [Page         |-> page,
       Pagination   |-> pagination,
       PageEntities |-> IF pagination.StartIndex < Len(entry.Entities)
                        THEN GoSlice(entry.Entities, pagination.StartIndex, end)
                        ELSE entry.Entities,
       Filename     |-> filename,
       Path         |-> Slash \o taxName \o Slash \o filename]

(***************************************************************************)
(* taxonomy.GroupByLetter, letter page names                               *)
(***************************************************************************)

\* unicode.IsLetter and unicode.ToUpper on rune(b) for a byte b (Latin-1).
IsLetter(r) ==
  \/ (r >= 65 /\ r <= 90) \/ (r >= 97 /\ r <= 122)
  \/ r \in {170, 181, 186}
  \/ (r >= 192 /\ r <= 214) \/ (r >= 216 /\ r <= 246) \/ (r >= 248 /\ r <= 255)
  \/ r \in {376, 924}

ToUpper(r) ==
  IF r >= 97 /\ r <= 122 THEN r - 32
  ELSE IF r = 181 THEN 924
  ELSE IF r = 255 THEN 376
  ELSE IF (r >= 224 /\ r <= 246) \/ (r >= 248 /\ r <= 254) THEN r - 32
  ELSE r

\* string(r): the UTF-8 encoding of a rune below 2048.
RuneString(r) ==
  IF r < 128 THEN <<r>> ELSE <<192 + (r \div 64), 128 + (r % 64)>>

\* "#"
Sentinel == <<35>>

\* Lines 252-263: the label of an entry's group.
letterOf(entry) ==
  LET first == ToUpper(entry.Name[1])
  IN  IF IsLetter(first) THEN RuneString(first) ELSE Sentinel

\* Variant that sorts in descending order.
RECURSIVE SortStrings_descending(_)
SortStrings_descending(S) ==
  IF S = {} THEN <<>>
  ELSE LET greatest == CHOOSE x \in S : \A y \in S \ {x} : StrLess(y, x)
       IN  <<greatest>> \o SortStrings_descending(S \ {greatest})

\* sort.Strings on a set of distinct labels.
RECURSIVE SortStrings(_)
SortStrings(S) ==
  IF S = {} THEN <<>>
  ELSE LET least == CHOOSE x \in S : \A y \in S \ {x} : StrLess(x, y)
       IN  <<least>> \o SortStrings(S \ {least})

GroupByLetter(entries) ==
  LET named   == SelectSeq(entries, LAMBDA entry : Len(entry.Name) # 0)
      letters == SortStrings({letterOf(named[i]) : i \in 1..Len(named)})
  IN  [k \in 1..Len(letters) |->
         [Letter  |-> letters[k],
          Entries |-> SelectSeq(named, LAMBDA entry : letterOf(entry) = letters[k])]]

\* "letter-", "num", "index.html"
LetterPrefix == <<108, 101, 116, 116, 101, 114, 45>>
Num == <<110, 117, 109>>
IndexHtml == <<105, 110, 100, 101, 120, 46, 104, 116, 109, 108>>

\* build.go lines 801-804 and 832: the file name of a letter page.
letterFile(letter) ==
  LET letterSlug == IF letter = Sentinel THEN Num ELSE ToLower(letter)
  IN  LetterPrefix \o letterSlug \o DotHtml

(***************************************************************************)
(* output.NewSitemapEntry, output.GenerateSitemapFiles                     *)
(***************************************************************************)

\* strings.TrimRight(s, "/")
RECURSIVE TrimRightSlash(_)
TrimRightSlash(s) ==
  IF s # <<>> /\ s[Len(s)] = 47
  THEN TrimRightSlash(SubSeq(s, 1, Len(s) - 1)) ELSE s

NewSitemapEntry(baseURL, path, lastmod, priority, changefreq) ==
  [Loc        |-> IF path = Slash THEN baseURL \o Slash
                  ELSE TrimRightSlash(baseURL \o path),
   Lastmod    |-> lastmod,
   Priority   |-> priority,
   ChangeFreq |-> changefreq]

\* A split that keeps only the full chunks.
RECURSIVE chunkEntries_fullOnly(_, _)
chunkEntries_fullOnly(entries, size) ==
  IF Len(entries) < size \/ entries = <<>> THEN <<>>
  ELSE <<SubSeq(entries, 1, size)>>
       \o chunkEntries_fullOnly(SubSeq(entries, size + 1, Len(entries)), size)

RECURSIVE chunkEntries(_, _)
chunkEntries(entries, size) ==
  IF entries = <<>> THEN <<>>
  ELSE LET end == IF size > Len(entries) THEN Len(entries) ELSE size
       IN  <<SubSeq(entries, 1, end)>>
           \o chunkEntries(SubSeq(entries, end + 1, Len(entries)), size)

\* "sitemap.xml", "sitemap-", ".xml"
SitemapXml == <<115, 105, 116, 101, 109, 97, 112, 46, 120, 109, 108>>
SitemapPrefix == <<115, 105, 116, 101, 109, 97, 112, 45>>
DotXml == <<46, 120, 109, 108>>

\* Line 44: the fallback of a non-positive maxPerFile.
SitemapFallbackMax == 50000

\* A file's Content is modelled by what the XML document lists: the
\* entries of a <urlset>, or the <sitemap> records of a <sitemapindex>.
GenerateSitemapFiles(entries, baseURL, maxPerFileArg) ==
  LET maxPerFile == IF maxPerFileArg <= 0 THEN SitemapFallbackMax ELSE maxPerFileArg
  IN  IF Len(entries) <= maxPerFile
      THEN <<[Filename |-> SitemapXml, Kind |-> "urlset", Content |-> entries]>>
      ELSE LET lastmod == IF Len(entries) > 0 THEN entries[1].Lastmod ELSE ""
               chunks  == chunkEntries(entries, maxPerFile)
               name(i) == SitemapPrefix \o Itoa(i) \o DotXml
               files   == [i \in 1..Len(chunks) |->
                             [Filename |-> name(i), Kind |-> "urlset",
                              Content  |-> chunks[i]]]
               index   == [i \in 1..Len(chunks) |->
                             [Loc     |-> baseURL \o Slash \o name(i),
                              Lastmod |-> lastmod]]
           IN  <<[Filename |-> SitemapXml, Kind |-> "sitemapindex",
                  Content  |-> index]>> \o files

(***************************************************************************)
(* output.GenerateRSSFeeds                                                 *)
(***************************************************************************)

\* "feed.xml"
FeedXml == <<102, 101, 101, 100, 46, 120, 109, 108>>

\* The feed lists GenerateRSSFeeds may return, one per iteration order of
\* the taxonomyEntries map; a feed's Content is modelled by the entities
\* it lists.
GenerateRSSFeeds(entities, cfg, taxonomyEntries) ==
  IF ~cfg.RSS.Enabled THEN {<<>>}
  ELSE LET mainPath == IF cfg.RSS.MainFeed = <<>> THEN FeedXml ELSE cfg.RSS.MainFeed
           main     == [RelativePath |-> mainPath,
                        Content      |-> [i \in 1..Len(entities) |-> i]]
       IN  IF ~cfg.RSS.CategoryFeeds THEN {<<main>>}
           ELSE {<<main>> \o
                 [k \in 1..Len(order) |->
                    [RelativePath |-> cfg.RSS.CategoryTaxonomy \o Slash \o order[k]
                                      \o Slash \o FeedXml,
                     Content      |-> taxonomyEntries[order[k]]]] :
                 order \in MapOrders(DOMAIN taxonomyEntries)}

(***************************************************************************)
(* config.applyDefaults (the settings the build reads)                     *)
(***************************************************************************)
DefaultEntitiesPerPage == 48
DefaultMaxURLsPerFile == 50000
DefaultMinEntities == 1
DefaultLetterPageThreshold == 50

applyTaxonomyDefaults(tc) ==
  [tc EXCEPT
     !.MinEntities = IF @ = 0 THEN DefaultMinEntities ELSE @,
     !.LetterPageThreshold = IF @ = 0 THEN DefaultLetterPageThreshold ELSE @]

applyDefaults(cfg) ==
  [cfg EXCEPT
     !.EntitiesPerPage = IF @ = 0 THEN DefaultEntitiesPerPage ELSE @,
     !.MaxURLsPerFile = IF @ = 0 THEN DefaultMaxURLsPerFile ELSE @,
     !.Taxonomies = [i \in 1..Len(@) |-> applyTaxonomyDefaults(@[i])]]

(***************************************************************************)
(* State                                                                   *)
(*   args, rets : the arguments and the successive results of a library    *)
(*                function exercised on its own (taxonomy builder,         *)
(*                value extraction, pagination)                            *)
(* State of one Builder.Build pass:                                        *)
(*   pc             : the statement the calling thread is at               *)
(*   entities       : the loaded entities                                  *)
(*   slugMap        : slug -> entity pointer                               *)
(*   taxonomies     : the result of taxonomy.BuildAll                      *)
(*   sitemapEntries : the shared slice of sitemap entries                  *)
(*   sitemapMu      : the holder of the mutex (0: unlocked)                *)
(*   workers        : per entity, the position of its goroutine and the    *)
(*                    slice value it read inside addSitemapEntry           *)
(*   next           : the index of the next entity of the dispatch loop    *)
(*   sem, wg        : tokens in the semaphore channel, WaitGroup counter   *)
(*   entityErrors   : the atomic counter of failed entity renders          *)
(*   categoryEntries: slug -> entities of the RSS category taxonomy        *)
(*   cursor         : position inside the taxonomy / all-entities stages   *)
(*   disk           : the files of the output directory                    *)
(*   result         : what Build returned ("" while it runs)               *)
(*   failedStep     : the step whose error Build returned ("" if none)     *)
(* State of the entity stage of Build exercised on its own with many       *)
(* entities (with pc, next, sem, wg, entityErrors as above):               *)
(*   pool           : the numbers of goroutines at each position           *)
(***************************************************************************)
VARIABLES args, rets,
          pc, entities, slugMap, taxonomies, sitemapEntries, sitemapMu,
          workers, next, sem, wg, entityErrors, categoryEntries, cursor,
          disk, result, failedStep, pool

callVars == <<args, rets>>

buildVars == <<pc, entities, slugMap, taxonomies, sitemapEntries, sitemapMu,
               workers, next, sem, wg, entityErrors, categoryEntries, cursor,
               disk, result, failedStep, pool>>

vars == <<args, rets, pc, entities, slugMap, taxonomies, sitemapEntries,
          sitemapMu, workers, next, sem, wg, entityErrors, categoryEntries,
          cursor, disk, result, failedStep, pool>>

\* No library function is being exercised on its own.
NoCall == args = <<>> /\ rets = <<>>

\* No build is running.
NoBuild ==
  /\ pc = "none" /\ entities = <<>> /\ slugMap = <<>> /\ taxonomies = <<>>
  /\ sitemapEntries = <<>> /\ sitemapMu = 0 /\ workers = <<>> /\ next = 1
  /\ sem = 0 /\ wg = 0 /\ entityErrors = 0 /\ categoryEntries = <<>>
  /\ cursor = [t |-> 0, k |-> 0] /\ disk = <<>> /\ result = ""
  /\ failedStep = "" /\ pool = <<>>

(***************************************************************************)
(* Inputs of the taxonomy builder                                          *)
(***************************************************************************)
MaxTaxEntities == 2
MaxMinEntities == 2
Runs == 2

\* "e1", "e2", ...: the slug of the i-th loaded file.
FileSlug(i) == <<101, 48 + i>>

\* Raw values of the taxonomy field: missing, "B", "b", "a", "-" (which
\* slugifies to ""), ["a", "A"], ["b", "a B"], and a number.
RawFieldValues ==
  { <<>>,
    <<StrVal(<<66>>)>>, <<StrVal(<<98>>)>>, <<StrVal(<<97>>)>>,
    <<StrVal(<<45>>)>>,
    <<ListVal(<<StrVal(<<97>>), StrVal(<<65>>)>>)>>,
    <<ListVal(<<StrVal(<<98>>), StrVal(<<97, 32, 66>>)>>)>> }

\* Override data of one entity for the key "norm": none, or the string "a".
TaxOverrideData == { <<>>, <<StrVal(<<97>>)>> }

\* One loaded record: its raw field (<<>> when the key is missing) and its
\* override datum (<<>> when the table has no entry for the slug).
TaxShapes == [raw : RawFieldValues, ovr : TaxOverrideData]

ShapeSeqs(S, n) == UNION {[1..k -> S] : k \in 0..n}

EntityOf(shape, i) ==
  [Slug   |-> FileSlug(i),
   Fields |-> IF shape.raw = <<>> THEN <<>>
              ELSE ("category" :> shape.raw[1])]

EntitiesOf(shapes) == [i \in 1..Len(shapes) |-> EntityOf(shapes[i], i)]

EnrichmentOf(shapes, key) ==
  LET have == {i \in 1..Len(shapes) : shapes[i].ovr # <<>>}
  IN  [slug \in {FileSlug(i) : i \in have} |->
         LET i == CHOOSE j \in have : FileSlug(j) = slug
         IN  (key :> shapes[i].ovr[1])]

RawTaxonomyConfigs ==
  [Name : {<<99>>}, Field : {"category"}, MultiValue : BOOLEAN,
   MinEntities : 0..MaxMinEntities, LetterPageThreshold : {0},
   Invert : BOOLEAN, EnrichmentOverrideField : {NoField, Key("norm")}]

RawConfigOf(tcs) ==
  [BaseURL         |-> <<117>>,
   EntitiesPerPage |-> 0,
   MaxURLsPerFile  |-> 0,
   Taxonomies      |-> tcs,
   RSS             |-> [Enabled |-> FALSE, MainFeed |-> <<>>,
                        CategoryFeeds |-> FALSE, CategoryTaxonomy |-> <<>>]]

TaxInit ==
  /\ \E shapes \in ShapeSeqs(TaxShapes, MaxTaxEntities), tc \in RawTaxonomyConfigs :
       args = [fn             |-> "buildOne",
               entities       |-> EntitiesOf(shapes),
               tc             |-> applyDefaults(RawConfigOf(<<tc>>)).Taxonomies[1],
               enrichmentData |-> EnrichmentOf(shapes, Key("norm"))]
  /\ rets = <<>>
  /\ NoBuild

\* One run of the taxonomy builder on the fixed input.
TaxRun ==
  /\ args.fn = "buildOne"
  /\ Len(rets) < Runs
  /\ \E tax \in buildOne(args.entities, args.tc, args.enrichmentData) :
       rets' = Append(rets, tax)
  /\ UNCHANGED args
  /\ UNCHANGED buildVars

SpecTax == TaxInit /\ [][TaxRun]_vars

(***************************************************************************)
(* Properties of the taxonomy builder                                      *)
(***************************************************************************)

\* The values entity pointer e resolves to under the input of the run.
ResolvedValues(e) ==
  extractValues(args.entities[e], args.tc, args.enrichmentData)

\* The (entity, value position) pairs of the resolved values.
ValuePositions ==
  UNION {{<<e, k>> : k \in 1..Len(ResolvedValues(e))} :
           e \in 1..Len(args.entities)}

\* The (entity, value position) pairs whose value slugifies to slug.
Memberships(slug) ==
  {p \in ValuePositions : ToSlug(ResolvedValues(p[1])[p[2]]) = slug}

CandidateSlugs ==
  {ToSlug(ResolvedValues(p[1])[p[2]]) : p \in ValuePositions} \ {<<>>}

EntrySlugs(tax) == {tax.Entries[i].Slug : i \in 1..Len(tax.Entries)}

\* C6: in every built Taxonomy the Entries are in strictly ascending slug
\* order (hence no slug occurs twice), and every Entry's slug is non-empty
\* and is the slugified form of a value each of its members resolved to.
C6_EntriesStrictlyAscending ==
  \A r \in 1..Len(rets) :
    LET es == rets[r].Entries
    IN  /\ \A i, j \in 1..Len(es) : i < j => StrLess(es[i].Slug, es[j].Slug)
        /\ \A i \in 1..Len(es) :
             /\ es[i].Slug # <<>>
             /\ es[i].Entities # <<>>
             /\ \A k \in 1..Len(es[i].Entities) :
                  \E n \in 1..Len(ResolvedValues(es[i].Entities[k])) :
                    ToSlug(ResolvedValues(es[i].Entities[k])[n]) = es[i].Slug

\* A run that built the Entries "a-b", "b" from values met in the order
\* "b", "a B", on a corpus in which another entity's value ("-") slugified
\* to nothing and was discarded.
C6_Witness ==
  /\ Len(rets) >= 1
  /\ Len(rets[1].Entries) = 2
  /\ rets[1].Entries[1].Slug = <<97, 45, 98>>
  /\ rets[1].Entries[1].Name = <<97, 32, 66>>
  /\ ResolvedValues(1) = <<<<98>>, <<97, 32, 66>>>>
  /\ \E e \in 1..Len(args.entities) :
       ResolvedValues(e) # <<>> /\ ToSlug(ResolvedValues(e)[1]) = <<>>

\* The example of the specification: groups of 70, 45 and 5 members.
ExampleGroups ==
  (<<100>> :> [Name |-> <<100>>, Slug |-> <<100>>, Entities |-> [i \in 1..70 |-> i]])
  @@ (<<115>> :> [Name |-> <<115>>, Slug |-> <<115>>, Entities |-> [i \in 1..45 |-> 70 + i]])
  @@ (<<116>> :> [Name |-> <<116>>, Slug |-> <<116>>, Entities |-> [i \in 1..5 |-> 115 + i]])

\* C7: for a (non-inverted) definition with threshold m, a slug group is an
\* Entry of the built Taxonomy if and only if it has at least m members,
\* and the Entry holds all of them; groups of 70, 45 and 5 members with
\* m = 10 give exactly the Entries of 70 and 45.
C7_MinEntitiesFilter ==
  /\ \A r \in 1..Len(rets) :
       ~args.tc.Invert =>
         /\ EntrySlugs(rets[r]) \subseteq CandidateSlugs
         /\ \A slug \in CandidateSlugs :
              /\ (slug \in EntrySlugs(rets[r]))
                   <=> (Cardinality(Memberships(slug)) >= args.tc.MinEntities)
              /\ \A i \in 1..Len(rets[r].Entries) :
                   rets[r].Entries[i].Slug = slug =>
                     Len(rets[r].Entries[i].Entities) = Cardinality(Memberships(slug))
  /\ \A order \in MapOrders(DOMAIN ExampleGroups) :
       LET kept == filterMinEntities(ExampleGroups, order, [MinEntities |-> 10])
       IN  /\ Len(kept) = 2
           /\ {Len(kept[i].Entities) : i \in 1..2} = {70, 45}

\* A run with threshold 2 that kept a group of exactly 2 members and
\* dropped a group of 1.
C7_Witness ==
  /\ Len(rets) >= 1
  /\ ~args.tc.Invert
  /\ args.tc.MinEntities = 2
  /\ \E s1, s2 \in CandidateSlugs :
       /\ Cardinality(Memberships(s1)) = 2 /\ s1 \in EntrySlugs(rets[1])
       /\ Cardinality(Memberships(s2)) = 1 /\ s2 \notin EntrySlugs(rets[1])

\* C9: two runs of the taxonomy builder on the same entities, definition
\* and override table return the same Taxonomy (same Entries, names and
\* member lists, in the same order), whatever order the group map was
\* ranged over in each run.
C9_TaxonomyDeterministic ==
  \A r1, r2 \in 1..Len(rets) : rets[r1] = rets[r2]

\* Two runs done on an input that yields several Entries.
C9_Witness ==
  /\ Len(rets) = 2
  /\ Len(rets[1].Entries) >= 2
  /\ Len(rets[2].Entries) >= 2

(***************************************************************************)
(* Inputs of extractValues: one entity, a definition, an override table    *)
(***************************************************************************)

\* Raw values of the taxonomy field, including "" and a number.
ExtractRawValues ==
  RawFieldValues \cup { <<StrVal(<<>>)>>, <<OtherVal>> }

\* Data stored under the plain override key "norm": nothing, "a", "",
\* [], ["a", "b"], ["", "a"], [""], [7], 7.
SimpleOverrideData ==
  { <<>>,
    <<StrVal(<<97>>)>>, <<StrVal(<<>>)>>,
    <<ListVal(<<>>)>>,
    <<ListVal(<<StrVal(<<97>>), StrVal(<<98>>)>>)>>,
    <<ListVal(<<StrVal(<<>>), StrVal(<<97>>)>>)>>,
    <<ListVal(<<StrVal(<<>>)>>)>>,
    <<ListVal(<<OtherVal>>)>>,
    <<OtherVal>> }

\* Data stored under "ingredients" for the path
\* "ingredients[].normalizedName": nothing, a string, [], [{normalizedName:
\* "a"}], [{normalizedName: ""}], [{normalizedName: "b"}, {normalizedName:
\* "a"}], [{}], ["a"], [{normalizedName: 7}].
NestedOverrideData ==
  { <<>>,
    <<StrVal(<<97>>)>>,
    <<ListVal(<<>>)>>,
    <<ListVal(<<MapVal(Key("normalizedName") :> StrVal(<<97>>))>>)>>,
    <<ListVal(<<MapVal(Key("normalizedName") :> StrVal(<<>>))>>)>>,
    <<ListVal(<<MapVal(Key("normalizedName") :> StrVal(<<98>>)),
                MapVal(Key("normalizedName") :> StrVal(<<97>>))>>)>>,
    <<ListVal(<<MapVal(<<>>)>>)>>,
    <<ListVal(<<StrVal(<<97>>)>>)>>,
    <<ListVal(<<MapVal(Key("normalizedName") :> OtherVal)>>)>> }

\* The override table: no entry for the slug, or an entry with the data.
ExtractTables ==
  { <<>> } \cup
  { (FileSlug(1) :>
       ((IF simple = <<>> THEN <<>> ELSE (Key("norm") :> simple[1]))
        @@ (IF nested = <<>> THEN <<>> ELSE (Key("ingredients") :> nested[1])))) :
      simple \in SimpleOverrideData, nested \in NestedOverrideData }

ExtractConfigs ==
  [Name : {<<99>>}, Field : {"category"}, MultiValue : BOOLEAN,
   MinEntities : {1}, LetterPageThreshold : {50}, Invert : {FALSE},
   EnrichmentOverrideField :
     {NoField, Key("norm"), <<"ingredients", "normalizedName">>}]

ExtractInit ==
  /\ \E raw \in ExtractRawValues, tc \in ExtractConfigs, table \in ExtractTables :
       args = [fn             |-> "extractValues",
               e              |-> EntityOf([raw |-> raw], 1),
               tc             |-> tc,
               enrichmentData |-> table]
  /\ rets = <<>>
  /\ NoBuild

\* One call of extractValues.
ExtractRun ==
  /\ args.fn = "extractValues"
  /\ rets = <<>>
  /\ rets' = <<extractValues(args.e, args.tc, args.enrichmentData)>>
  /\ UNCHANGED args
  /\ UNCHANGED buildVars

SpecExtract == ExtractInit /\ [][ExtractRun]_vars

(***************************************************************************)
(* Properties of extractValues                                             *)
(***************************************************************************)

\* The memberships a value list gives: its non-empty slugs, in order.
RECURSIVE MembershipSlugs(_)
MembershipSlugs(values) ==
  IF values = <<>> THEN <<>>
  ELSE IF ToSlug(Head(values)) = <<>> THEN MembershipSlugs(Tail(values))
  ELSE <<ToSlug(Head(values))>> \o MembershipSlugs(Tail(values))

\* The strings the override table holds for the entity at the configured
\* path, empty ones included.
RECURSIVE ItemStrings(_, _)
ItemStrings(items, sub) ==
  IF items = <<>> THEN <<>>
  ELSE (IF Head(items).t = "map" /\ sub \in DOMAIN Head(items).m
           /\ Head(items).m[sub].t = "str"
        THEN <<Head(items).m[sub].s>> ELSE <<>>)
       \o ItemStrings(Tail(items), sub)

OverrideStrings ==
  LET f == args.tc.EnrichmentOverrideField
      d == args.enrichmentData[args.e.Slug]
  IN  IF Len(f) = 2
      THEN IF Key(f[1]) \in DOMAIN d /\ d[Key(f[1])].t = "list"
           THEN ItemStrings(d[Key(f[1])].items, Key(f[2])) ELSE <<>>
      ELSE IF f \in DOMAIN d
           THEN (IF d[f].t = "str" THEN <<d[f].s>>
                 ELSE IF d[f].t = "list" THEN StringItems(d[f].items)
                 ELSE <<>>)
           ELSE <<>>

\* The table holds a non-empty override value for the entity.
OverridePresent ==
  /\ args.tc.EnrichmentOverrideField # NoField
  /\ args.e.Slug \in DOMAIN args.enrichmentData
  /\ \E i \in 1..Len(OverrideStrings) : OverrideStrings[i] # <<>>

\* C8: with an override key configured and a non-empty override value for
\* the entity, its memberships come from the override values only;
\* without a key, without a table entry, or with an empty override value,
\* they come from the raw field.
C8_OverridePrecedence ==
  rets # <<>> =>
    IF OverridePresent
    THEN MembershipSlugs(rets[1]) = MembershipSlugs(OverrideStrings)
    ELSE MembershipSlugs(rets[1]) = MembershipSlugs(rawFieldValues(args.e, args.tc))

(***************************************************************************)
(* The hub-page loop of one Entry, on its own                              *)
(***************************************************************************)
MaxMembers == 10
MaxPageSize == 5

\* An Entry with slug "a" and n members.
EntryOfSize(n) ==
  [Name |-> <<65>>, Slug |-> <<97>>, Entities |-> [i \in 1..n |-> i]]

PageInit ==
  /\ \E n \in 0..MaxMembers, size \in 0..MaxPageSize :
       args = [fn      |-> "hubPages",
               taxName |-> <<99>>,
               entry   |-> EntryOfSize(n),
               perPage |-> applyDefaults(
                             [RawConfigOf(<<>>) EXCEPT !.EntitiesPerPage = size]
                           ).EntitiesPerPage]
  /\ rets = <<>>
  /\ NoBuild

\* The next pass of `for page := 1; page <= totalPages; page++`.
HubPageStep ==
  /\ args.fn = "hubPages"
  /\ LET page == Len(rets) + 1
     IN  /\ page <= hubTotalPages(args.entry, args.perPage)
         /\ rets' = Append(rets, hubPage(args.taxName, args.entry, page, args.perPage))
  /\ UNCHANGED args
  /\ UNCHANGED buildVars

SpecPage == PageInit /\ [][HubPageStep]_vars

\* The hub-page loop has run to its end.
HubLoopDone == Len(rets) + 1 > hubTotalPages(args.entry, args.perPage)

\* max(1, ceil(n / size)) for n >= 0 and size >= 1.
ExpectedPages(n, size) ==
  IF n = 0 THEN 1
  ELSE CHOOSE k \in 1..n : k * size >= n /\ (k - 1) * size < n

\* C10: for an Entry of n >= 0 members and a page size s >= 1, every page
\* the loop requests reports TotalPages = max(1, ceil(n / s)), and the loop
\* renders exactly that many hub pages: pages 1..TotalPages, one each; an
\* Entry without members gets exactly one page.
C10_TotalPages ==
  LET expected == ExpectedPages(Len(args.entry.Entities), args.perPage)
  IN  /\ args.perPage >= 1
      /\ Len(rets) <= expected
      /\ \A k \in 1..Len(rets) :
           /\ rets[k].Page = k
           /\ rets[k].Pagination.CurrentPage = k
           /\ rets[k].Pagination.TotalPages = expected
           /\ Len(rets[k].Pagination.PageURLs) = expected
      /\ HubLoopDone => Len(rets) = expected

\* The loop ended after 3 pages for 5 members at 2 per page.
C10_Witness ==
  /\ HubLoopDone
  /\ Len(args.entry.Entities) = 5 /\ args.perPage = 2
  /\ Len(rets) = 3

\* The loop ended after one empty page for an Entry without members.
C10_WitnessEmpty ==
  /\ HubLoopDone
  /\ args.entry.Entities = <<>>
  /\ Len(rets) = 1
  /\ rets[1].PageEntities = <<>>


(***************************************************************************)
(* build.Builder.Build: the site of one pass                               *)
(***************************************************************************)

\* The numbers of loaded entities, and the page and sitemap-file sizes of
\* the modelled site configuration.
MaxEntities == 3
BuildEntitiesPerPage == 2
BuildMaxURLsPerFile == 4

\* sem := make(chan struct{}, 32)
PoolSize == 32

\* The site: base URL "u", taxonomy "c" with letter pages from two entries
\* on, taxonomy "d" of the entries with at least two entities, both over
\* the field "category"; RSS with one feed per entry of "c".
BuildTaxonomyConfigs ==
  << [Name |-> <<99>>, Field |-> "category", MultiValue |-> FALSE,
      MinEntities |-> 0, LetterPageThreshold |-> 2, Invert |-> FALSE,
      EnrichmentOverrideField |-> NoField],
     [Name |-> <<100>>, Field |-> "category", MultiValue |-> FALSE,
      MinEntities |-> 2, LetterPageThreshold |-> 0, Invert |-> FALSE,
      EnrichmentOverrideField |-> NoField] >>

BuildConfig ==
  applyDefaults(
    [RawConfigOf(BuildTaxonomyConfigs) EXCEPT
       !.EntitiesPerPage = BuildEntitiesPerPage,
       !.MaxURLsPerFile  = BuildMaxURLsPerFile,
       !.RSS = [Enabled |-> TRUE, MainFeed |-> <<>>,
                CategoryFeeds |-> TRUE, CategoryTaxonomy |-> <<99>>]])

\* The corpora loader.Load may return: entities of category "B" or "a".
BuildShapes == {[raw |-> <<StrVal(<<66>>)>>], [raw |-> <<StrVal(<<97>>)>>]}

\* enrichmentData of a site without enrichment cache directory.
NoEnrichment == <<>>

\* os.WriteFile: the disk after writing one file.
WriteFile(d, path, kind, content) ==
  [f \in DOMAIN d \cup {path} |->
     IF f = path THEN [Kind |-> kind, Content |-> content] ELSE d[f]]

RECURSIVE WriteFiles(_, _)
WriteFiles(d, files) ==
  IF files = <<>> THEN d
  ELSE WriteFiles(WriteFile(d, files[1].File, files[1].Kind, files[1].Content),
                  Tail(files))

RECURSIVE Flatten(_)
Flatten(seqs) == IF seqs = <<>> THEN <<>> ELSE Head(seqs) \o Flatten(Tail(seqs))

\* renderEntityPage: the page of entity i, its file and its sitemap path.
entityPage(e, i) ==
  [Step |-> "entity", File |-> e.Slug \o DotHtml,
   Path |-> Slash \o e.Slug \o DotHtml, Content |-> <<i>>]

\* renderTaxonomyPages: the pages of one taxonomy in the order the
\* function renders them: the hub pages of every entry, the index page,
\* then the letter pages when the threshold is met.
taxonomyPages(tax, perPage) ==
  LET hubs(entry) ==
        [p \in 1..hubTotalPages(entry, perPage) |->
           LET h == hubPage(tax.Name, entry, p, perPage)
           IN  [Step |-> "hub", File |-> tax.Name \o Slash \o h.Filename,
                Path |-> h.Path, Content |-> h.PageEntities]]
      hasLetters   == Len(tax.Entries) >= tax.Config.LetterPageThreshold
      letterGroups == GroupByLetter(tax.Entries)
      counts(es)   == [j \in 1..Len(es) |-> Len(es[j].Entities)]
      index ==
        [Step |-> "index", File |-> tax.Name \o Slash \o IndexHtml,
         Path |-> Slash \o tax.Name \o Slash, Content |-> counts(tax.Entries)]
      letter(lg) ==
        [Step |-> "letter", File |-> tax.Name \o Slash \o letterFile(lg.Letter),
         Path |-> Slash \o tax.Name \o Slash \o letterFile(lg.Letter),
         Content |-> counts(lg.Entries)]
  IN  Flatten([j \in 1..Len(tax.Entries) |-> hubs(tax.Entries[j])])
      \o <<index>>
      \o (IF hasLetters
          THEN [g \in 1..Len(letterGroups) |-> letter(letterGroups[g])]
          ELSE <<>>)

\* "all", "page-"
All == <<97, 108, 108>>
PagePrefix == <<112, 97, 103, 101, 45>>

\* renderAllEntitiesPages: the pages of the all-entities listing.
allEntitiesPages(ents, perPage) ==
  LET totalPages == IF GoDiv(Len(ents) + perPage - 1, perPage) = 0 THEN 1
                    ELSE GoDiv(Len(ents) + perPage - 1, perPage)
  IN  [page \in 1..totalPages |->
         LET start    == (page - 1) * perPage
             end      == IF start + perPage > Len(ents) THEN Len(ents)
                         ELSE start + perPage
             filename == IF page > 1 THEN PagePrefix \o Itoa(page) \o DotHtml
                         ELSE IndexHtml
         IN  [Step |-> "all", File |-> All \o Slash \o filename,
              Path |-> Slash \o All \o Slash \o filename,
              Content |-> GoSlice([i \in 1..Len(ents) |-> i], start, end)]]

\* renderHomepage and the sitemap path Build records for it.
homepage(ents) ==
  [Step |-> "homepage", File |-> IndexHtml, Path |-> Slash \o IndexHtml,
   Content |-> <<Len(ents)>>]

\* The closure addSitemapEntry applied to a page, given the slice it read.
appendSitemapEntry(slice, page) ==
  Append(slice, NewSitemapEntry(BuildConfig.BaseURL, page.Path, "today",
                                page.Step, page.Step))


(***************************************************************************)
(* build.Builder.Build: the calling thread up to wg.Wait()                 *)
(***************************************************************************)

Init ==
  /\ NoCall
  /\ pc = "load" /\ entities = <<>> /\ slugMap = <<>> /\ taxonomies = <<>>
  /\ sitemapEntries = <<>> /\ sitemapMu = 0 /\ workers = <<>> /\ next = 1
  /\ sem = 0 /\ wg = 0 /\ entityErrors = 0 /\ categoryEntries = <<>>
  /\ cursor = [t |-> 0, k |-> 0] /\ disk = <<>> /\ result = ""
  /\ failedStep = "" /\ pool = <<>>

\* `return fmt.Errorf(...)` out of Build at the named step.
ReturnError(step) ==
  /\ pc' = "done"
  /\ result' = "error"
  /\ failedStep' = step

\* Lines 176-183: ldr.Load() returns the entities.
Load ==
  /\ pc = "load"
  /\ \E shapes \in ShapeSeqs(BuildShapes, MaxEntities) :
       entities' = EntitiesOf(shapes)
  /\ pc' = "slugMap"
  /\ UNCHANGED <<args, rets, pool, slugMap, taxonomies, sitemapEntries, sitemapMu,
                 workers, next, sem, wg, entityErrors, categoryEntries,
                 cursor, disk, result, failedStep>>

\* Lines 179-182: ldr.Load() fails.
LoadFail ==
  /\ pc = "load"
  /\ ReturnError("load")
  /\ UNCHANGED <<args, rets, pool, entities, slugMap, taxonomies, sitemapEntries,
                 sitemapMu, workers, next, sem, wg, entityErrors,
                 categoryEntries, cursor, disk>>

\* Variant of the slug lookup that keeps the first entity of a slug.
SlugMapOf_firstWins(ents) ==
  [slug \in {ents[i].Slug : i \in 1..Len(ents)} |->
     CHOOSE i \in 1..Len(ents) :
       /\ ents[i].Slug = slug
       /\ \A j \in 1..Len(ents) : ents[j].Slug = slug => i <= j]

\* The map the loop of lines 186-189 builds: `slugMap[e.Slug] = e` in
\* entity order, a later entity replacing an earlier one of the same slug.
SlugMapOf(ents) ==
  [slug \in {ents[i].Slug : i \in 1..Len(ents)} |->
     CHOOSE i \in 1..Len(ents) :
       /\ ents[i].Slug = slug
       /\ \A j \in 1..Len(ents) : ents[j].Slug = slug => j <= i]

\* Variant of the lookup loop that stops at the first slug not in the map.
RECURSIVE resolveSlugs_stopAtMissing(_, _)
resolveSlugs_stopAtMissing(m, slugs) ==
  IF slugs = <<>> THEN <<>>
  ELSE IF Head(slugs) \in DOMAIN m
       THEN <<m[Head(slugs)]>> \o resolveSlugs_stopAtMissing(m, Tail(slugs))
       ELSE <<>>

\* The loops of lines 455-459 and 1128-1133: the entity of every slug of
\* the list that is in the map, in list order.
RECURSIVE resolveSlugs(_, _)
resolveSlugs(m, slugs) ==
  IF slugs = <<>> THEN <<>>
  ELSE IF Head(slugs) \in DOMAIN m
       THEN <<m[Head(slugs)]>> \o resolveSlugs(m, Tail(slugs))
       ELSE resolveSlugs(m, Tail(slugs))

\* Entity.GetStringSlice: the string items of a list field, and nothing
\* for a missing field or a field of another type.
GetStringSlice(e, key) ==
  IF key \notin DOMAIN e.Fields THEN <<>>
  ELSE IF e.Fields[key].t = "list" THEN StringItems(e.Fields[key].items)
  ELSE <<>>

\* Lines 185-189: the slug lookup; a later entity replaces an earlier one
\* of the same slug.
BuildSlugMap ==
  /\ pc = "slugMap"
  /\ slugMap' = SlugMapOf(entities)
  /\ pc' = "taxonomies"
  /\ UNCHANGED <<args, rets, pool, entities, taxonomies, sitemapEntries, sitemapMu,
                 workers, next, sem, wg, entityErrors, categoryEntries,
                 cursor, disk, result, failedStep>>

\* Lines 211-226: taxonomy.BuildAll (and the slug sets derived from it).
BuildTaxonomies ==
  /\ pc = "taxonomies"
  /\ taxonomies' \in BuildAll(entities, BuildConfig.Taxonomies, NoEnrichment)
  /\ pc' = "prepare"
  /\ UNCHANGED <<args, rets, pool, entities, slugMap, sitemapEntries, sitemapMu,
                 workers, next, sem, wg, entityErrors, categoryEntries,
                 cursor, disk, result, failedStep>>

\* Lines 228-287: output directory, render engine; the goroutines of the
\* entity stage do not exist yet.
Prepare ==
  /\ pc = "prepare"
  /\ workers' = [i \in 1..Len(entities) |->
                  [pc |-> "unborn", slice |-> <<>>, err |-> FALSE]]
  /\ pc' = "dispatch"
  /\ UNCHANGED <<args, rets, pool, entities, slugMap, taxonomies, sitemapEntries,
                 sitemapMu, next, sem, wg, entityErrors, categoryEntries,
                 cursor, disk, result, failedStep>>

\* Lines 230-239: os.MkdirAll or render.NewEngine fails.
PrepareFail ==
  /\ pc = "prepare"
  /\ ReturnError("prepare")
  /\ UNCHANGED <<args, rets, pool, entities, slugMap, taxonomies, sitemapEntries,
                 sitemapMu, workers, next, sem, wg, entityErrors,
                 categoryEntries, cursor, disk>>

\* Lines 290-293: one pass of the dispatch loop: wg.Add(1), the send on
\* sem (which blocks while the channel is full), go func.
Dispatch ==
  /\ pc = "dispatch"
  /\ next <= Len(entities)
  /\ sem < PoolSize
  /\ wg' = wg + 1
  /\ sem' = sem + 1
  /\ workers' = [workers EXCEPT ![next].pc = "render"]
  /\ next' = next + 1
  /\ UNCHANGED <<args, rets, pool, pc, entities, slugMap, taxonomies, sitemapEntries,
                 sitemapMu, entityErrors, categoryEntries, cursor, disk,
                 result, failedStep>>

\* Line 290: the range loop is over.
DispatchDone ==
  /\ pc = "dispatch"
  /\ next > Len(entities)
  /\ pc' = "wait"
  /\ UNCHANGED <<args, rets, pool, entities, slugMap, taxonomies, sitemapEntries,
                 sitemapMu, workers, next, sem, wg, entityErrors,
                 categoryEntries, cursor, disk, result, failedStep>>

(***************************************************************************)
(* The goroutine of entity i (lines 293-303) and renderEntityPage          *)
(***************************************************************************)

\* Lines 556-566: the page is rendered and written; addSitemapEntry is
\* called next.
RenderEntity(i) ==
  /\ workers[i].pc = "render"
  /\ LET page == entityPage(entities[i], i)
     IN  disk' = WriteFile(disk, page.File, "page", page.Content)
  /\ workers' = [workers EXCEPT ![i].pc = "lock"]
  /\ UNCHANGED <<args, rets, pool, pc, entities, slugMap, taxonomies, sitemapEntries,
                 sitemapMu, next, sem, wg, entityErrors, categoryEntries,
                 cursor, result, failedStep>>

\* An entity failure that ends the whole pass.
RenderEntityFail_abort(i) ==
  /\ workers[i].pc = "render"
  /\ workers' = [workers EXCEPT ![i].pc = "failed", ![i].err = TRUE]
  /\ ReturnError("entity")
  /\ UNCHANGED <<args, rets, pool, entities, slugMap, taxonomies, sitemapEntries,
                 sitemapMu, next, sem, wg, entityErrors, categoryEntries,
                 cursor, disk>>

\* Lines 556-564: engine.RenderEntity or os.WriteFile fails; the goroutine
\* gets the error.
RenderEntityFail(i) ==
  /\ workers[i].pc = "render"
  /\ workers' = [workers EXCEPT ![i].pc = "failed", ![i].err = TRUE]
  /\ UNCHANGED <<args, rets, pool, pc, entities, slugMap, taxonomies, sitemapEntries,
                 sitemapMu, next, sem, wg, entityErrors, categoryEntries,
                 cursor, disk, result, failedStep>>

\* addSitemapEntry without Lock().
SitemapLock_noMutex(i) ==
  /\ workers[i].pc = "lock"
  /\ sitemapMu' = i
  /\ workers' = [workers EXCEPT ![i].pc = "append", ![i].slice = sitemapEntries]
  /\ UNCHANGED <<args, rets, pool, pc, entities, slugMap, taxonomies, sitemapEntries,
                 next, sem, wg, entityErrors, categoryEntries, cursor, disk,
                 result, failedStep>>

\* Line 274: sitemapMu.Lock(); then the read of the slice by append.
SitemapLock(i) ==
  /\ workers[i].pc = "lock"
  /\ sitemapMu = 0
  /\ sitemapMu' = i
  /\ workers' = [workers EXCEPT ![i].pc = "append", ![i].slice = sitemapEntries]
  /\ UNCHANGED <<args, rets, pool, pc, entities, slugMap, taxonomies, sitemapEntries,
                 next, sem, wg, entityErrors, categoryEntries, cursor, disk,
                 result, failedStep>>

\* Lines 275-278: the assignment of the appended slice, and the deferred
\* Unlock().
SitemapAppend(i) ==
  /\ workers[i].pc = "append"
  /\ sitemapEntries' = appendSitemapEntry(workers[i].slice,
                                          entityPage(entities[i], i))
  /\ sitemapMu' = 0
  /\ workers' = [workers EXCEPT ![i].pc = "release", ![i].slice = <<>>]
  /\ UNCHANGED <<args, rets, pool, pc, entities, slugMap, taxonomies, next, sem, wg,
                 entityErrors, categoryEntries, cursor, disk, result,
                 failedStep>>

\* Variant with a plain read and write of the counter: the value written
\* may come from a read made before other goroutines' increments.
CountError_lostUpdate(i) ==
  /\ workers[i].pc = "failed"
  /\ entityErrors' \in 1..(entityErrors + 1)
  /\ workers' = [workers EXCEPT ![i].pc = "release"]
  /\ UNCHANGED <<args, rets, pool, pc, entities, slugMap, taxonomies, sitemapEntries,
                 sitemapMu, next, sem, wg, categoryEntries, cursor, disk,
                 result, failedStep>>

\* Lines 299-302: atomic.AddInt64(&entityErrors, 1).
CountError(i) ==
  /\ workers[i].pc = "failed"
  /\ entityErrors' = entityErrors + 1
  /\ workers' = [workers EXCEPT ![i].pc = "release"]
  /\ UNCHANGED <<args, rets, pool, pc, entities, slugMap, taxonomies, sitemapEntries,
                 sitemapMu, next, sem, wg, categoryEntries, cursor, disk,
                 result, failedStep>>

\* Line 295: the deferred receive from sem.
Release(i) ==
  /\ workers[i].pc = "release"
  /\ sem' = sem - 1
  /\ workers' = [workers EXCEPT ![i].pc = "wgDone"]
  /\ UNCHANGED <<args, rets, pool, pc, entities, slugMap, taxonomies, sitemapEntries,
                 sitemapMu, next, wg, entityErrors, categoryEntries, cursor,
                 disk, result, failedStep>>

\* Line 294: the deferred wg.Done(); the goroutine is over.
WgDone(i) ==
  /\ workers[i].pc = "wgDone"
  /\ wg' = wg - 1
  /\ workers' = [workers EXCEPT ![i].pc = "done"]
  /\ UNCHANGED <<args, rets, pool, pc, entities, slugMap, taxonomies, sitemapEntries,
                 sitemapMu, next, sem, entityErrors, categoryEntries, cursor,
                 disk, result, failedStep>>

\* The calling thread going on without wg.Wait().
Wait_noBarrier ==
  /\ pc = "wait"
  /\ pc' = "searchIndex"
  /\ UNCHANGED <<args, rets, pool, entities, slugMap, taxonomies, sitemapEntries,
                 sitemapMu, workers, next, sem, wg, entityErrors,
                 categoryEntries, cursor, disk, result, failedStep>>

\* Line 305: wg.Wait() returns once the counter is zero.
Wait ==
  /\ pc = "wait"
  /\ wg = 0
  /\ pc' = "searchIndex"
  /\ UNCHANGED <<args, rets, pool, entities, slugMap, taxonomies, sitemapEntries,
                 sitemapMu, workers, next, sem, wg, entityErrors,
                 categoryEntries, cursor, disk, result, failedStep>>


(***************************************************************************)
(* build.Builder.Build: the calling thread after wg.Wait()                 *)
(***************************************************************************)

\* "search-index.json", "robots.txt", "manifest.json"
SearchIndexJson == <<115, 101, 97, 114, 99, 104, 45, 105, 110, 100, 101, 120,
                     46, 106, 115, 111, 110>>
RobotsTxt == <<114, 111, 98, 111, 116, 115, 46, 116, 120, 116>>
ManifestJson == <<109, 97, 110, 105, 102, 101, 115, 116, 46, 106, 115, 111, 110>>

\* Lines 320-322: categoryEntries[entry.Slug] = entry.Entities for every
\* entry of one taxonomy.
putEntries(m, entries) ==
  LET at(slug) == {j \in 1..Len(entries) : entries[j].Slug = slug}
  IN  [slug \in DOMAIN m \cup {entries[j].Slug : j \in 1..Len(entries)} |->
         IF at(slug) # {}
         THEN entries[CHOOSE j \in at(slug) : \A h \in at(slug) : h <= j].Entities
         ELSE m[slug]]

\* Variant that collects the entries of every taxonomy, whatever its name.
RECURSIVE categoryEntriesOf_anyName(_, _, _)
categoryEntriesOf_anyName(m, taxs, name) ==
  IF taxs = <<>> THEN m
  ELSE categoryEntriesOf_anyName(putEntries(m, Head(taxs).Entries),
                                 Tail(taxs), name)

\* Lines 317-324: the entries of the taxonomies of the RSS category name.
RECURSIVE categoryEntriesOf(_, _, _)
categoryEntriesOf(m, taxs, name) ==
  IF taxs = <<>> THEN m
  ELSE categoryEntriesOf(IF Head(taxs).Name = name
                         THEN putEntries(m, Head(taxs).Entries) ELSE m,
                         Tail(taxs), name)

\* Lines 310-324: the search index (a failure is only logged) and the
\* category entries.
SearchIndex ==
  /\ pc = "searchIndex"
  /\ \/ /\ Len(entities) > 0
        /\ disk' = WriteFile(disk, SearchIndexJson, "json", <<Len(entities)>>)
     \/ disk' = disk
  /\ categoryEntries' = categoryEntriesOf(categoryEntries, taxonomies,
                                         BuildConfig.RSS.CategoryTaxonomy)
  /\ pc' = "taxonomy"
  /\ cursor' = [t |-> 1, k |-> 0]
  /\ UNCHANGED <<args, rets, pool, entities, slugMap, taxonomies, sitemapEntries,
                 sitemapMu, workers, next, sem, wg, entityErrors, result,
                 failedStep>>

\* The pages renderTaxonomyPages is rendering.
currentPages == taxonomyPages(taxonomies[cursor.t], BuildConfig.EntitiesPerPage)

\* Lines 585-587: os.MkdirAll(taxDir).
TaxonomyDir ==
  /\ pc = "taxonomy"
  /\ cursor.k = 0
  /\ cursor' = [cursor EXCEPT !.k = 1]
  /\ UNCHANGED <<args, rets, pool, pc, entities, slugMap, taxonomies, sitemapEntries,
                 sitemapMu, workers, next, sem, wg, entityErrors,
                 categoryEntries, disk, result, failedStep>>

TaxonomyDirFail ==
  /\ pc = "taxonomy"
  /\ cursor.k = 0
  /\ ReturnError("taxonomyDir")
  /\ UNCHANGED <<args, rets, pool, entities, slugMap, taxonomies, sitemapEntries,
                 sitemapMu, workers, next, sem, wg, entityErrors,
                 categoryEntries, cursor, disk>>

\* The loops of renderTaxonomyPages and of lines 328-332 moving on: the
\* next page, the next taxonomy, or the all-entities stage.
TaxonomyAdvance ==
  IF cursor.k < Len(currentPages)
  THEN /\ cursor' = [cursor EXCEPT !.k = cursor.k + 1]
       /\ pc' = pc
  ELSE IF cursor.t < Len(taxonomies)
  THEN /\ cursor' = [t |-> cursor.t + 1, k |-> 0]
       /\ pc' = pc
  ELSE /\ cursor' = [t |-> 0, k |-> 0]
       /\ pc' = "all"

\* A page rendered and written by the calling thread, and its
\* addSitemapEntry call (Lock, append, Unlock).
EmitPage(page) ==
  /\ sitemapMu = 0
  /\ disk' = WriteFile(disk, page.File, "page", page.Content)
  /\ sitemapEntries' = appendSitemapEntry(sitemapEntries, page)
  /\ UNCHANGED sitemapMu

\* Lines 621-712, 786-795, 798-871: one hub, index or letter page.
RenderTaxonomyPage ==
  /\ pc = "taxonomy"
  /\ cursor.k >= 1
  /\ EmitPage(currentPages[cursor.k])
  /\ TaxonomyAdvance
  /\ UNCHANGED <<args, rets, pool, entities, slugMap, taxonomies, workers, next, sem,
                 wg, entityErrors, categoryEntries, result, failedStep>>

\* A failed page that is skipped, the pass going on.
RenderTaxonomyPageFail_continue ==
  /\ pc = "taxonomy"
  /\ cursor.k >= 1
  /\ failedStep' = currentPages[cursor.k].Step
  /\ TaxonomyAdvance
  /\ UNCHANGED <<args, rets, pool, entities, slugMap, taxonomies, sitemapEntries,
                 sitemapMu, workers, next, sem, wg, entityErrors,
                 categoryEntries, disk, result>>

\* Lines 689-704, 787-794, 860-867: the render or the write of the page
\* fails.
RenderTaxonomyPageFail ==
  /\ pc = "taxonomy"
  /\ cursor.k >= 1
  /\ ReturnError(currentPages[cursor.k].Step)
  /\ UNCHANGED <<args, rets, pool, entities, slugMap, taxonomies, sitemapEntries,
                 sitemapMu, workers, next, sem, wg, entityErrors,
                 categoryEntries, cursor, disk>>

\* The pages renderAllEntitiesPages is rendering.
allPages == allEntitiesPages(entities, BuildConfig.EntitiesPerPage)

\* Lines 886-889: os.MkdirAll(allDir).
AllDir ==
  /\ pc = "all"
  /\ cursor.k = 0
  /\ cursor' = [cursor EXCEPT !.k = 1]
  /\ UNCHANGED <<args, rets, pool, pc, entities, slugMap, taxonomies, sitemapEntries,
                 sitemapMu, workers, next, sem, wg, entityErrors,
                 categoryEntries, disk, result, failedStep>>

AllDirFail ==
  /\ pc = "all"
  /\ cursor.k = 0
  /\ ReturnError("allDir")
  /\ UNCHANGED <<args, rets, pool, entities, slugMap, taxonomies, sitemapEntries,
                 sitemapMu, workers, next, sem, wg, entityErrors,
                 categoryEntries, cursor, disk>>

\* Lines 917-1017: one page of the all-entities listing.
RenderAllPage ==
  /\ pc = "all"
  /\ cursor.k >= 1
  /\ EmitPage(allPages[cursor.k])
  /\ IF cursor.k < Len(allPages)
     THEN cursor' = [cursor EXCEPT !.k = cursor.k + 1] /\ pc' = pc
     ELSE cursor' = [t |-> 0, k |-> 0] /\ pc' = "homepage"
  /\ UNCHANGED <<args, rets, pool, entities, slugMap, taxonomies, workers, next, sem,
                 wg, entityErrors, categoryEntries, result, failedStep>>

\* Lines 1001-1014: the render or the write of the page fails.
RenderAllPageFail ==
  /\ pc = "all"
  /\ cursor.k >= 1
  /\ ReturnError("all")
  /\ UNCHANGED <<args, rets, pool, entities, slugMap, taxonomies, sitemapEntries,
                 sitemapMu, workers, next, sem, wg, entityErrors,
                 categoryEntries, cursor, disk>>

\* The orders sort.Slice may leave a copy of the entries in: descending by
\* member count, entries of equal count in any order.
SortedByCount(entries) ==
  {s \in Rearrangements(entries) :
     \A i, j \in 1..Len(s) :
       i < j => Len(s[i].Entities) >= Len(s[j].Entities)}

\* taxonomy.TopEntries: the first n entries of a sorted copy.
TopEntries(entries, n) ==
  {SubSeq(s, 1, IF n > Len(s) THEN Len(s) ELSE n) : s \in SortedByCount(entries)}

\* Variant in which the chart data of the homepage is sorted in the
\* taxonomies' own entry slices and not in a copy.
RenderHomepage_sortsInPlace ==
  /\ pc = "homepage"
  /\ EmitPage(homepage(entities))
  /\ pc' = "sitemap"
  /\ LET sorted(t) == {[taxonomies[t] EXCEPT !.Entries = s] :
                         s \in TopEntries(taxonomies[t].Entries,
                                          Len(taxonomies[t].Entries))}
     IN  taxonomies' \in
           {taxs \in [1..Len(taxonomies) ->
                       UNION {sorted(t) : t \in 1..Len(taxonomies)}] :
              \A t \in 1..Len(taxonomies) : taxs[t] \in sorted(t)}
  /\ UNCHANGED <<args, rets, pool, entities, slugMap, workers, next, sem,
                 wg, entityErrors, categoryEntries, cursor, result, failedStep>>

\* Lines 342-345 and renderHomepage; the site has no static pages
\* (lines 348-364 are an empty loop).
RenderHomepage ==
  /\ pc = "homepage"
  /\ EmitPage(homepage(entities))
  /\ pc' = "sitemap"
  /\ UNCHANGED <<args, rets, pool, entities, slugMap, taxonomies, workers, next, sem,
                 wg, entityErrors, categoryEntries, cursor, result, failedStep>>

RenderHomepageFail ==
  /\ pc = "homepage"
  /\ ReturnError("homepage")
  /\ UNCHANGED <<args, rets, pool, entities, slugMap, taxonomies, sitemapEntries,
                 sitemapMu, workers, next, sem, wg, entityErrors,
                 categoryEntries, cursor, disk>>


(***************************************************************************)
(* build.Builder.Build: sitemap files, RSS feeds, the remaining files      *)
(***************************************************************************)

\* The sitemap files of lines 368-369 as files of the output directory.
sitemapFiles ==
  LET files == GenerateSitemapFiles(sitemapEntries, BuildConfig.BaseURL,
                                    BuildConfig.MaxURLsPerFile)
  IN  [j \in 1..Len(files) |->
         [File |-> files[j].Filename, Kind |-> "sitemap",
          Content |-> files[j].Content]]

\* Lines 369-374: every sitemap file is written.
WriteSitemaps ==
  /\ pc = "sitemap"
  /\ disk' = WriteFiles(disk, sitemapFiles)
  /\ pc' = "rss"
  /\ UNCHANGED <<args, rets, pool, entities, slugMap, taxonomies, sitemapEntries,
                 sitemapMu, workers, next, sem, wg, entityErrors,
                 categoryEntries, cursor, result, failedStep>>

\* Lines 370-373: the write of the j-th sitemap file fails.
WriteSitemapsFail ==
  /\ pc = "sitemap"
  /\ \E j \in 1..Len(sitemapFiles) :
       disk' = WriteFiles(disk, SubSeq(sitemapFiles, 1, j - 1))
  /\ ReturnError("sitemap")
  /\ UNCHANGED <<args, rets, pool, entities, slugMap, taxonomies, sitemapEntries,
                 sitemapMu, workers, next, sem, wg, entityErrors,
                 categoryEntries, cursor>>

\* The feed lists of line 378 as files of the output directory.
rssFiles ==
  {[j \in 1..Len(feeds) |->
      [File |-> feeds[j].RelativePath, Kind |-> "rss",
       Content |-> feeds[j].Content]] :
   feeds \in GenerateRSSFeeds(entities, BuildConfig, categoryEntries)}

\* Lines 378-390: every feed is written.
WriteRSS ==
  /\ pc = "rss"
  /\ \E files \in rssFiles : disk' = WriteFiles(disk, files)
  /\ pc' = "tail"
  /\ UNCHANGED <<args, rets, pool, entities, slugMap, taxonomies, sitemapEntries,
                 sitemapMu, workers, next, sem, wg, entityErrors,
                 categoryEntries, cursor, result, failedStep>>

\* Lines 380-386: the directory or the write of the j-th feed fails.
WriteRSSFail ==
  /\ pc = "rss"
  /\ \E files \in rssFiles : \E j \in 1..Len(files) :
       disk' = WriteFiles(disk, SubSeq(files, 1, j - 1))
  /\ ReturnError("rss")
  /\ UNCHANGED <<args, rets, pool, entities, slugMap, taxonomies, sitemapEntries,
                 sitemapMu, workers, next, sem, wg, entityErrors,
                 categoryEntries, cursor>>

\* Lines 392-434: robots.txt and manifest.json; Build returns nil.
Finish ==
  /\ pc = "tail"
  /\ disk' = WriteFile(WriteFile(disk, RobotsTxt, "txt", <<>>),
                       ManifestJson, "json", <<>>)
  /\ pc' = "done"
  /\ result' = "nil"
  /\ UNCHANGED <<args, rets, pool, entities, slugMap, taxonomies, sitemapEntries,
                 sitemapMu, workers, next, sem, wg, entityErrors,
                 categoryEntries, cursor, failedStep>>

\* Lines 394-409: the write of robots.txt, or of manifest.json after it,
\* fails.
FinishFail ==
  /\ pc = "tail"
  /\ \/ disk' = disk
     \/ disk' = WriteFile(disk, RobotsTxt, "txt", <<>>)
  /\ ReturnError("tail")
  /\ UNCHANGED <<args, rets, pool, entities, slugMap, taxonomies, sitemapEntries,
                 sitemapMu, workers, next, sem, wg, entityErrors,
                 categoryEntries, cursor>>

Next ==
  \/ Load
  \/ LoadFail
  \/ BuildSlugMap
  \/ BuildTaxonomies
  \/ Prepare
  \/ PrepareFail
  \/ Dispatch
  \/ DispatchDone
  \/ \E i \in 1..Len(workers) : RenderEntity(i)
  \/ \E i \in 1..Len(workers) : RenderEntityFail(i)
  \/ \E i \in 1..Len(workers) : SitemapLock(i)
  \/ \E i \in 1..Len(workers) : SitemapAppend(i)
  \/ \E i \in 1..Len(workers) : CountError(i)
  \/ \E i \in 1..Len(workers) : Release(i)
  \/ \E i \in 1..Len(workers) : WgDone(i)
  \/ Wait
  \/ SearchIndex
  \/ TaxonomyDir
  \/ TaxonomyDirFail
  \/ RenderTaxonomyPage
  \/ RenderTaxonomyPageFail
  \/ AllDir
  \/ AllDirFail
  \/ RenderAllPage
  \/ RenderAllPageFail
  \/ RenderHomepage
  \/ RenderHomepageFail
  \/ WriteSitemaps
  \/ WriteSitemapsFail
  \/ WriteRSS
  \/ WriteRSSFail
  \/ Finish
  \/ FinishFail

Spec == Init /\ [][Next]_vars


(***************************************************************************)
(* The entity stage of Build (lines 284-305) with more entities than the   *)
(* pool has slots.  The goroutines are counted by position:                *)
(*   render  : inside renderEntityPage                                     *)
(*   release : returned, before the deferred receive from sem              *)
(*   wgDone  : slot released, before the deferred wg.Done()                *)
(*   done    : over                                                        *)
(* args.entities is len(entities).                                         *)
(***************************************************************************)

MaxPoolEntities == 33

PoolInit ==
  /\ args = [fn |-> "entityStage", entities |-> MaxPoolEntities]
  /\ rets = <<>>
  /\ pc = "add" /\ next = 1 /\ sem = 0 /\ wg = 0 /\ entityErrors = 0
  /\ pool = [render |-> 0, release |-> 0, wgDone |-> 0, done |-> 0]
  /\ entities = <<>> /\ slugMap = <<>> /\ taxonomies = <<>>
  /\ sitemapEntries = <<>> /\ sitemapMu = 0 /\ workers = <<>>
  /\ categoryEntries = <<>> /\ cursor = [t |-> 0, k |-> 0] /\ disk = <<>>
  /\ result = "" /\ failedStep = ""

poolFrame == <<args, rets, entities, slugMap, taxonomies, sitemapEntries,
               sitemapMu, workers, categoryEntries, cursor, disk, result,
               failedStep>>

\* Lines 290-291: the loop takes the next entity; wg.Add(1).
PoolAdd ==
  /\ pc = "add"
  /\ next <= args.entities
  /\ wg' = wg + 1
  /\ pc' = "acquire"
  /\ UNCHANGED <<next, sem, entityErrors, pool>>
  /\ UNCHANGED poolFrame

\* Line 290: the loop is over.
PoolDispatchDone ==
  /\ pc = "add"
  /\ next > args.entities
  /\ pc' = "wait"
  /\ UNCHANGED <<next, sem, wg, entityErrors, pool>>
  /\ UNCHANGED poolFrame

\* A send that never blocks.
PoolAcquire_nonBlocking ==
  /\ pc = "acquire"
  /\ sem' = sem + 1
  /\ pc' = "go"
  /\ UNCHANGED <<next, wg, entityErrors, pool>>
  /\ UNCHANGED poolFrame

\* Line 292: sem <- struct{}{} blocks while the channel holds 32 tokens.
PoolAcquire ==
  /\ pc = "acquire"
  /\ sem < PoolSize
  /\ sem' = sem + 1
  /\ pc' = "go"
  /\ UNCHANGED <<next, wg, entityErrors, pool>>
  /\ UNCHANGED poolFrame

\* Line 293: go func(e).
PoolGo ==
  /\ pc = "go"
  /\ pool' = [pool EXCEPT !.render = @ + 1]
  /\ next' = next + 1
  /\ pc' = "add"
  /\ UNCHANGED <<sem, wg, entityErrors>>
  /\ UNCHANGED poolFrame

\* Lines 297-298: renderEntityPage returns nil.
PoolRenderOk ==
  /\ pool.render > 0
  /\ pool' = [pool EXCEPT !.render = @ - 1, !.release = @ + 1]
  /\ UNCHANGED <<pc, next, sem, wg, entityErrors>>
  /\ UNCHANGED poolFrame

\* Lines 297-302: renderEntityPage returns an error, which is counted.
PoolRenderFail ==
  /\ pool.render > 0
  /\ pool' = [pool EXCEPT !.render = @ - 1, !.release = @ + 1]
  /\ entityErrors' = entityErrors + 1
  /\ UNCHANGED <<pc, next, sem, wg>>
  /\ UNCHANGED poolFrame

\* Variant of a goroutine that ends without giving its slot back.
PoolRelease_keepsSlot ==
  /\ pool.release > 0
  /\ pool' = [pool EXCEPT !.release = @ - 1, !.wgDone = @ + 1]
  /\ UNCHANGED <<pc, next, sem, wg, entityErrors>>
  /\ UNCHANGED poolFrame

\* Line 295: the deferred receive from sem.
PoolRelease ==
  /\ pool.release > 0
  /\ sem' = sem - 1
  /\ pool' = [pool EXCEPT !.release = @ - 1, !.wgDone = @ + 1]
  /\ UNCHANGED <<pc, next, wg, entityErrors>>
  /\ UNCHANGED poolFrame

\* Line 294: the deferred wg.Done().
PoolWgDone ==
  /\ pool.wgDone > 0
  /\ wg' = wg - 1
  /\ pool' = [pool EXCEPT !.wgDone = @ - 1, !.done = @ + 1]
  /\ UNCHANGED <<pc, next, sem, entityErrors>>
  /\ UNCHANGED poolFrame

\* Line 305: wg.Wait() returns.
PoolWait ==
  /\ pc = "wait"
  /\ wg = 0
  /\ pc' = "searchIndex"
  /\ UNCHANGED <<next, sem, wg, entityErrors, pool>>
  /\ UNCHANGED poolFrame

PoolNext ==
  \/ PoolAdd
  \/ PoolDispatchDone
  \/ PoolAcquire
  \/ PoolGo
  \/ PoolRenderOk
  \/ PoolRenderFail
  \/ PoolRelease
  \/ PoolWgDone
  \/ PoolWait

SpecPool == PoolInit /\ [][PoolNext]_vars


(***************************************************************************)
(* Properties of the build pass                                            *)
(***************************************************************************)

\* The page files of the output directory.
PagesOnDisk == {f \in DOMAIN disk : disk[f].Kind = "page"}

\* The files of the output directory of one kind.
FilesOfKind(kind) == {f \in DOMAIN disk : disk[f].Kind = kind}

TaxonomyNames ==
  {BuildConfig.Taxonomies[t].Name : t \in 1..Len(BuildConfig.Taxonomies)}

\* The URL under which the sitemap lists a page file: base URL and file
\* path, the index page of a taxonomy being listed as its directory.
LocOfFile(f) ==
  IF \E name \in TaxonomyNames : f = name \o Slash \o IndexHtml
  THEN BuildConfig.BaseURL \o Slash \o SubSeq(f, 1, Len(f) - Len(IndexHtml) - 1)
  ELSE BuildConfig.BaseURL \o Slash \o f

EntriesAt(loc) ==
  {k \in 1..Len(sitemapEntries) : sitemapEntries[k].Loc = loc}

\* The file of the page of entity i.
EntityFile(i) == entities[i].Slug \o DotHtml

EntityStageOver == pc \notin {"load", "slugMap", "taxonomies", "prepare",
                              "dispatch", "wait"}

\* C1: whenever no entity worker is running (in particular once the last
\* page of the build has been emitted), the sitemap accumulator holds
\* exactly one entry for every page file written, and no other entry,
\* whatever the interleaving of the workers was.
C1_SitemapOneEntryPerPage ==
  pc \notin {"dispatch", "wait"} =>
    /\ \A f \in PagesOnDisk : Cardinality(EntriesAt(LocOfFile(f))) = 1
    /\ Len(sitemapEntries) = Cardinality(PagesOnDisk)

\* Three entity pages were written and the third entity's entry was
\* appended first: the workers ran interleaved; every page of the pass has
\* been emitted, letter pages included.
C1_Witness ==
  /\ pc = "sitemap"
  /\ Len(entities) = 3
  /\ \A i \in 1..3 : EntityFile(i) \in PagesOnDisk
  /\ sitemapEntries[1].Loc = LocOfFile(EntityFile(3))
  /\ sitemapEntries[3].Loc = LocOfFile(EntityFile(1))
  /\ (<<99>> \o Slash \o letterFile(<<65>>)) \in PagesOnDisk
  /\ Len(sitemapEntries) >= 10

StructuralSteps == {"load", "prepare", "taxonomyDir", "hub", "index", "letter",
                    "allDir", "all", "homepage", "sitemap", "rss", "tail"}

\* C2: a failed entity render never makes Build fail: Build returns an
\* error only for a structural step; once the entity stage is over every
\* entity has been dispatched and its goroutine has finished, with its
\* page written or its failure counted; and a pass in which no structural
\* step failed returns nil after writing the taxonomy index pages, the
\* all-entities listing and the homepage, however many entity pages
\* failed.
C2_EntityFailureIsolated ==
  /\ result = "error" => failedStep \in StructuralSteps
  /\ (EntityStageOver /\ failedStep \notin {"load", "prepare"}) =>
       /\ \A i \in 1..Len(entities) : workers[i].pc = "done"
       /\ entityErrors
            + Cardinality({i \in 1..Len(entities) : EntityFile(i) \in PagesOnDisk})
          = Len(entities)
  /\ (pc = "done" /\ failedStep = "") =>
       /\ result = "nil"
       /\ \A name \in TaxonomyNames : (name \o Slash \o IndexHtml) \in PagesOnDisk
       /\ (All \o Slash \o IndexHtml) \in PagesOnDisk
       /\ IndexHtml \in PagesOnDisk

\* Build returned nil although every one of three entity pages failed.
C2_Witness ==
  /\ pc = "done"
  /\ result = "nil"
  /\ Len(entities) = 3
  /\ entityErrors = 3
  /\ \A i \in 1..3 : EntityFile(i) \notin DOMAIN disk
  /\ IndexHtml \in PagesOnDisk

PageSteps == {"hub", "index", "letter", "all", "homepage"}

\* C3: once the render or the write of a hub, index, letter, all-entities
\* or home page has failed, Build has returned an error, the output
\* directory holds no sitemap file and no RSS feed, and no further step of
\* the pass is taken.
C3_StructuralFailureAborts ==
  /\ [](failedStep \in PageSteps =>
          /\ pc = "done"
          /\ result = "error"
          /\ FilesOfKind("sitemap") = {}
          /\ FilesOfKind("rss") = {})
  /\ [][failedStep \notin PageSteps]_vars

\* A letter page failed after the hub and index pages of its taxonomy had
\* been written.
C3_Witness ==
  /\ failedStep = "letter"
  /\ pc = "done"
  /\ result = "error"
  /\ (<<99>> \o Slash \o IndexHtml) \in PagesOnDisk
  /\ Cardinality(PagesOnDisk) >= 5

WorkerRunning(i) == workers[i].pc \notin {"unborn", "done"}

\* C4: an entity goroutine runs only while the calling thread is in the
\* dispatch loop or in wg.Wait(); when the dispatch loop starts, the slug
\* lookup and the taxonomies are the complete results for the loaded
\* entities, and they do not change during the entity stage; and from the
\* end of wg.Wait() on (the search index and every structural page) every
\* goroutine is over.
C4_StagesNeverOverlap ==
  /\ []((\E i \in 1..Len(workers) : WorkerRunning(i)) =>
          /\ pc \in {"dispatch", "wait"}
          /\ DOMAIN slugMap = {entities[j].Slug : j \in 1..Len(entities)}
          /\ Len(taxonomies) = Len(BuildConfig.Taxonomies))
  /\ []((pc = "dispatch" /\ next = 1) =>
          /\ DOMAIN slugMap = {entities[j].Slug : j \in 1..Len(entities)}
          /\ taxonomies \in BuildAll(entities, BuildConfig.Taxonomies, NoEnrichment))
  /\ [][(pc \in {"dispatch", "wait"}) =>
          (entities' = entities /\ slugMap' = slugMap /\ taxonomies' = taxonomies)]_vars
  /\ [](pc \in {"searchIndex", "taxonomy", "all", "homepage", "sitemap", "rss", "tail"} =>
          /\ Len(workers) = Len(entities)
          /\ \A i \in 1..Len(workers) : workers[i].pc = "done"
          /\ wg = 0
          /\ sem = 0)

\* The first taxonomy page is about to be rendered after three goroutines,
\* one of them with an error, have finished.
C4_Witness ==
  /\ pc = "taxonomy"
  /\ cursor = [t |-> 1, k |-> 1]
  /\ Len(entities) = 3
  /\ \A i \in 1..3 : workers[i].pc = "done"
  /\ entityErrors = 1
  /\ PagesOnDisk = {EntityFile(1), EntityFile(3)}

\* A goroutine holds the mutex while another waits for it and the
\* dispatch loop is still running.
C4_WitnessRunning ==
  /\ pc = "dispatch"
  /\ Len(entities) = 3
  /\ workers[1].pc = "lock"
  /\ workers[2].pc = "append"
  /\ workers[3].pc = "unborn"

(***************************************************************************)
(* Properties of the goroutine pool                                        *)
(***************************************************************************)

\* C5: at most 32 renders are in progress; the channel holds one token
\* for every goroutine that has not yet released its slot and one for the
\* goroutine about to be started, so a goroutine starts only with a slot
\* acquired for it and gives back exactly that slot; when the stage is
\* over every slot has been given back.
C5_PoolBound ==
  /\ pool.render <= PoolSize
  /\ sem <= PoolSize
  /\ sem = pool.render + pool.release + (IF pc = "go" THEN 1 ELSE 0)
  /\ pool.render + pool.release + pool.wgDone + pool.done = next - 1
  /\ pc = "searchIndex" => sem = 0 /\ pool.done = args.entities

\* 32 renders are in progress, and the dispatch loop
\* is blocked on the send for the 33rd entity.
C5_Witness ==
  /\ pc = "acquire"
  /\ next = PoolSize + 1
  /\ pool.render = PoolSize
  /\ sem = PoolSize
  /\ args.entities > PoolSize

\* The 33rd goroutine was started after a failed render gave its slot
\* back.
C5_WitnessReleased ==
  /\ next = PoolSize + 2
  /\ pool.render = PoolSize
  /\ entityErrors = 1
  /\ pool.done = 1


(***************************************************************************)
(* Properties of the pagination windows and links                          *)
(***************************************************************************)

\* The members shown on the hub pages rendered so far, in page order.
ShownMembers == Flatten([k \in 1..Len(rets) |-> rets[k].PageEntities])

\* C11: the windows of pages 1..TotalPages lie inside the member list,
\* the first starts at 0, each next one starts where the previous one
\* ended, the last ends at n, and the members sliced for the pages are,
\* page after page, every member exactly once in member order; 70 members
\* at 48 per page give the windows [0, 48) and [48, 70).
C11_WindowsPartition ==
  LET n == Len(args.entry.Entities)
      w(k) == rets[k].Pagination
      seventy(page) == ComputePagination(EntryOfSize(70), page, 48, <<99>>)
  IN  /\ \A k \in 1..Len(rets) :
           /\ 0 <= w(k).StartIndex
           /\ w(k).StartIndex <= w(k).EndIndex
           /\ w(k).EndIndex <= n
           /\ w(k).StartIndex = (IF k = 1 THEN 0 ELSE w(k - 1).EndIndex)
           /\ rets[k].PageEntities
                = SubSeq(args.entry.Entities, w(k).StartIndex + 1, w(k).EndIndex)
      /\ ShownMembers = SubSeq(args.entry.Entities, 1, Len(ShownMembers))
      /\ HubLoopDone =>
           /\ w(Len(rets)).EndIndex = n
           /\ ShownMembers = args.entry.Entities
      /\ seventy(1).TotalPages = 2
      /\ <<seventy(1).StartIndex, seventy(1).EndIndex>> = <<0, 48>>
      /\ <<seventy(2).StartIndex, seventy(2).EndIndex>> = <<48, 70>>

\* Eight members at 3 per page were shown on windows of 3, 3 and 2.
C11_Witness ==
  /\ HubLoopDone
  /\ Len(args.entry.Entities) = 8 /\ args.perPage = 3
  /\ Len(rets) = 3
  /\ rets[3].Pagination.StartIndex = 6 /\ rets[3].Pagination.EndIndex = 8
  /\ rets[3].PageEntities = <<7, 8>>


\* The decimal digits of a number below 100.
Decimal(p) == IF p < 10 THEN <<48 + p>> ELSE <<48 + (p \div 10), 48 + (p % 10)>>

\* /<taxonomy>/<slug>.html for page 1, /<taxonomy>/<slug>-page-<p>.html
\* for a later page.
CanonicalURL(p) ==
  <<47>> \o args.taxName \o <<47>> \o args.entry.Slug
  \o (IF p = 1 THEN <<>> ELSE <<45, 112, 97, 103, 101, 45>> \o Decimal(p))
  \o <<46, 104, 116, 109, 108>>

\* C12: on every hub page p the listed page URLs are the canonical URLs
\* of pages 1..TotalPages, PrevURL is empty exactly on page 1 and is
\* otherwise the URL of page p-1, NextURL is empty exactly on the last page
\* and is otherwise the URL of page p+1; the page is written to the file
\* and recorded under the sitemap path that its canonical URL names; so
\* when the loop has ended every link leads to a page that was written.
C12_LinksNeverDangle ==
  LET written == {rets[j].Path : j \in 1..Len(rets)}
  IN  \A k \in 1..Len(rets) :
        LET info == rets[k].Pagination
        IN  /\ rets[k].Path = CanonicalURL(k)
            /\ <<47>> \o args.taxName \o <<47>> \o rets[k].Filename = CanonicalURL(k)
            /\ \A p \in 1..Len(info.PageURLs) :
                 /\ info.PageURLs[p].Number = p
                 /\ info.PageURLs[p].URL = CanonicalURL(p)
            /\ Len(info.PageURLs) = info.TotalPages
            /\ (info.PrevURL = <<>>) <=> (k = 1)
            /\ k > 1 => info.PrevURL = CanonicalURL(k - 1)
            /\ (info.NextURL = <<>>) <=> (k = info.TotalPages)
            /\ k < info.TotalPages => info.NextURL = CanonicalURL(k + 1)
            /\ HubLoopDone =>
                 /\ info.PrevURL # <<>> => info.PrevURL \in written
                 /\ info.NextURL # <<>> => info.NextURL \in written
                 /\ \A p \in 1..Len(info.PageURLs) : info.PageURLs[p].URL \in written

\* Ten pages were written; the tenth is /c/a-page-10.html and links back
\* to /c/a-page-9.html, the second links back to /c/a.html.
C12_Witness ==
  /\ HubLoopDone
  /\ Len(rets) = 10
  /\ rets[10].Path = <<47, 99, 47, 97, 45, 112, 97, 103, 101, 45, 49, 48,
                       46, 104, 116, 109, 108>>
  /\ rets[10].Pagination.PrevURL = <<47, 99, 47, 97, 45, 112, 97, 103, 101, 45,
                                     57, 46, 104, 116, 109, 108>>
  /\ rets[10].Pagination.NextURL = <<>>
  /\ rets[2].Pagination.PrevURL = <<47, 99, 47, 97, 46, 104, 116, 109, 108>>
  /\ rets[1].Filename = <<97, 46, 104, 116, 109, 108>>


(***************************************************************************)
(* taxonomy.GroupByLetter on its own                                       *)
(***************************************************************************)

MaxLetterEntries == 3

\* Display names: "a", "B", "b2", "1x", "-", the UTF-8 strings "Éa" and
\* "ö", and the empty name.
LetterNames ==
  {<<97>>, <<66>>, <<98, 50>>, <<49, 120>>, <<45>>, <<195, 137, 97>>,
   <<195, 182>>, <<>>}

\* The i-th Entry of the list, of the given display name.
LetterEntry(name, i) ==
  [Name |-> name, Slug |-> FileSlug(i), Entities |-> <<i>>]

LetterInit ==
  /\ \E names \in ShapeSeqs(LetterNames, MaxLetterEntries) :
       args = [fn      |-> "GroupByLetter",
               entries |-> [i \in 1..Len(names) |-> LetterEntry(names[i], i)]]
  /\ rets = <<>>
  /\ NoBuild

\* One call of GroupByLetter.
LetterRun ==
  /\ args.fn = "GroupByLetter"
  /\ rets = <<>>
  /\ rets' = <<GroupByLetter(args.entries)>>
  /\ UNCHANGED args
  /\ UNCHANGED buildVars

SpecLetter == LetterInit /\ [][LetterRun]_vars

\* The code point of the first character of a non-empty UTF-8 string of
\* one- and two-byte characters.
FirstCodePoint(name) ==
  IF name[1] < 128 THEN name[1]
  ELSE (name[1] - 192) * 64 + (name[2] - 128)

\* The label the group of a display name must have: its upper-cased first
\* character when that is a letter, the sentinel otherwise.
LabelOfName(name) ==
  IF name = <<>> THEN Sentinel
  ELSE IF IsLetter(FirstCodePoint(name))
  THEN RuneString(ToUpper(FirstCodePoint(name)))
  ELSE Sentinel

\* The positions (group, place) at which the groups hold an Entry.
PlacesOf(groups, entry) ==
  {gp \in {<<g, q>> : g \in 1..Len(groups), q \in 1..MaxLetterEntries + 1} :
     /\ gp[2] <= Len(groups[gp[1]].Entries)
     /\ groups[gp[1]].Entries[gp[2]] = entry}

\* C13: every Entry of the list is held by exactly one group, at one
\* place, and that group is labelled with the upper-cased first character
\* of the Entry's display name when it is a letter and with '#' otherwise;
\* no two groups share a label.
C13_LetterGroupsPartition ==
  rets # <<>> =>
    LET groups == rets[1]
    IN  /\ \A i \in 1..Len(args.entries) :
             /\ Cardinality(PlacesOf(groups, args.entries[i])) = 1
             /\ \A gp \in PlacesOf(groups, args.entries[i]) :
                  groups[gp[1]].Letter = LabelOfName(args.entries[i].Name)
        /\ \A g, h \in 1..Len(groups) :
             groups[g].Letter = groups[h].Letter => g = h


\* C13, for lists of non-empty display names that start with an ASCII
\* character: there the groups do partition the list under the labels
\* above.
C13_AsciiNamesPartition ==
  (\A i \in 1..Len(args.entries) :
     args.entries[i].Name # <<>> /\ args.entries[i].Name[1] < 128)
  => C13_LetterGroupsPartition


(***************************************************************************)
(* output.GenerateSitemapFiles on its own                                  *)
(***************************************************************************)

MaxSitemapEntries == 12
MaxPerFile == 5

\* n accumulated entries of the site "u", the i-th for the path /<i>.
SitemapEntriesOf(n) ==
  [i \in 1..n |-> NewSitemapEntry(<<117>>, Slash \o Itoa(i), "today", "0.8", "weekly")]

SitemapInit ==
  /\ \E n \in 0..MaxSitemapEntries, m \in 1..MaxPerFile :
       args = [fn         |-> "GenerateSitemapFiles",
               entries    |-> SitemapEntriesOf(n),
               baseURL    |-> <<117>>,
               maxPerFile |-> m]
  /\ rets = <<>>
  /\ NoBuild

\* One call of GenerateSitemapFiles.
SitemapRun ==
  /\ args.fn = "GenerateSitemapFiles"
  /\ rets = <<>>
  /\ rets' = <<GenerateSitemapFiles(args.entries, args.baseURL, args.maxPerFile)>>
  /\ UNCHANGED args
  /\ UNCHANGED buildVars

SpecSitemap == SitemapInit /\ [][SitemapRun]_vars

\* ceil(n / m) for n >= 1 and m >= 1.
CeilDiv(n, m) == CHOOSE k \in 1..n : k * m >= n /\ (k - 1) * m < n

\* The name sitemap-<j>.xml.
PartName(j) ==
  <<115, 105, 116, 101, 109, 97, 112, 45>> \o Decimal(j) \o <<46, 120, 109, 108>>

\* What C14 says of the files returned for n entries and a maximum m.
SitemapFilesAsClaimed(files, n, m, baseURL) ==
  IF n <= m
  THEN /\ Len(files) = 1
       /\ files[1].Filename = <<115, 105, 116, 101, 109, 97, 112, 46, 120, 109, 108>>
       /\ files[1].Kind = "urlset"
       /\ Len(files[1].Content) = n
  ELSE LET k == CeilDiv(n, m)
       IN  /\ Len(files) = 1 + k
           /\ files[1].Filename = <<115, 105, 116, 101, 109, 97, 112, 46, 120, 109, 108>>
           /\ files[1].Kind = "sitemapindex"
           /\ Len(files[1].Content) = k
           /\ \A j \in 1..k :
                /\ files[1 + j].Filename = PartName(j)
                /\ files[1 + j].Kind = "urlset"
                /\ files[1].Content[j].Loc = baseURL \o <<47>> \o PartName(j)
                /\ Len(files[1 + j].Content)
                     = (IF j < k THEN m ELSE n - m * (k - 1))
           /\ n - m * (k - 1) \in 1..m

\* C14: n entries with a maximum m >= 1 give the single file sitemap.xml
\* with all n URLs when n <= m, and otherwise an index sitemap.xml of
\* ceil(n/m) part files sitemap-1.xml .. sitemap-k.xml, each of m URLs but
\* the last, which has the remaining 1..m URLs; 130 entries at 50 per file
\* give an index of 3 and parts of 50, 50 and 30 URLs.
C14_SitemapSplit ==
  /\ rets # <<>> =>
       SitemapFilesAsClaimed(rets[1], Len(args.entries), args.maxPerFile, args.baseURL)
  /\ LET files == GenerateSitemapFiles(SitemapEntriesOf(130), <<117>>, 50)
     IN  /\ Len(files) = 4
         /\ Len(files[1].Content) = 3
         /\ <<Len(files[2].Content), Len(files[3].Content), Len(files[4].Content)>>
              = <<50, 50, 30>>

\* 12 entries at 5 per file: an index of 3 and parts of 5, 5 and 2 URLs.
C14_Witness ==
  /\ rets # <<>>
  /\ Len(args.entries) = 12 /\ args.maxPerFile = 5
  /\ Len(rets[1]) = 4
  /\ Len(rets[1][4].Content) = 2
  /\ rets[1][1].Kind = "sitemapindex"

\* 5 entries at 5 per file: one file, no index.
C14_WitnessSingle ==
  /\ rets # <<>>
  /\ Len(args.entries) = 5 /\ args.maxPerFile = 5
  /\ Len(rets[1]) = 1


(***************************************************************************)
(* Properties of the sitemap files of a build pass                         *)
(***************************************************************************)

\* The number of part files sitemap-1.xml, sitemap-2.xml, ... on disk.
PartsOnDisk ==
  Cardinality({j \in 1..Len(sitemapEntries) : PartName(j) \in DOMAIN disk})

\* The URL entries of the sitemap files on disk, file by file in sequence
\* order: those of the parts listed by the index, or those of sitemap.xml
\* when it is no index.
UrlEntriesOnDisk ==
  IF PartsOnDisk = 0 THEN disk[SitemapXml].Content
  ELSE Flatten([j \in 1..PartsOnDisk |-> disk[PartName(j)].Content])

SitemapsWritten ==
  \/ pc \in {"rss", "tail"}
  \/ pc = "done" /\ failedStep \in {"", "rss", "tail"}

\* C15: once the sitemap files are written, their URL entries, file by
\* file, are the accumulated entries in accumulation order, and there are
\* as many of them as pages were emitted in the pass.
C15_SitemapConservation ==
  SitemapsWritten =>
    /\ UrlEntriesOnDisk = sitemapEntries
    /\ Len(UrlEntriesOnDisk) = Cardinality(PagesOnDisk)
    /\ PartsOnDisk > 0 => Len(disk[SitemapXml].Content) = PartsOnDisk

\* 13 pages were emitted, the third entity's first, and the entries are on
\* disk in four part files.
C15_Witness ==
  /\ pc = "rss"
  /\ Len(sitemapEntries) = 13
  /\ sitemapEntries[1].Loc = LocOfFile(EntityFile(3))
  /\ PartsOnDisk = 4
  /\ Len(disk[PartName(4)].Content) = 1
  /\ disk[PartName(1)].Content[1].Loc = LocOfFile(EntityFile(3))

\* ---------------------------------------------------------------------
\* loader/markdown.go: loading the data directory into entities.
\* ---------------------------------------------------------------------

DotMd == <<46, 109, 100>>

HasSuffix(s, suffix) ==
  /\ Len(s) >= Len(suffix)
  /\ SubSeq(s, Len(s) - Len(suffix) + 1, Len(s)) = suffix

\* strings.TrimSuffix.
TrimSuffix(s, suffix) ==
  IF HasSuffix(s, suffix) THEN SubSeq(s, 1, Len(s) - Len(suffix)) ELSE s

\* filepath.Ext of a name without separators: the suffix that begins at
\* the last dot, or the empty string when the name has no dot.
Ext(base) ==
  LET dots == {i \in 1..Len(base) : base[i] = 46}
  IN  IF dots = {} THEN <<>>
      ELSE LET last == CHOOSE i \in dots : \A j \in dots : j <= i
           IN  SubSeq(base, last, Len(base))

\* The configured slug source is <<"filename">>, or <<"field:", name>> for
\* the string "field:" followed by a field name. The file is named by its
\* base name, the directory part of the path being the same for all.
deriveSlug(source, base, fields) ==
  IF /\ source[1] = "field:"
     /\ source[2] \in DOMAIN fields
     /\ fields[source[2]].t = "str"
  THEN ToSlug(fields[source[2]].s)
  ELSE TrimSuffix(base, Ext(base))

\* parseFile: <<>> when the file cannot be read or its frontmatter cannot
\* be parsed, and else the one entity of the file.
parseFile(source, file) ==
  IF ~file.Parses THEN <<>>
  ELSE <<[Slug       |-> deriveSlug(source, file.Name, file.Fields),
          SourceFile |-> file.Name,
          Fields     |-> file.Fields]>>

\* MarkdownLoader.Load over the directory listing: directories and names
\* without the suffix ".md" are passed over, a file that fails to parse is
\* skipped with a warning, and every other file appends its entity.
RECURSIVE MarkdownLoad(_, _)
MarkdownLoad(source, listing) ==
  IF listing = <<>> THEN <<>>
  ELSE LET entry == Head(listing)
           rest  == MarkdownLoad(source, Tail(listing))
       IN  IF entry.IsDir \/ ~HasSuffix(entry.Name, DotMd) THEN rest
           ELSE parseFile(source, entry) \o rest

\* Files of the data directory: "A b.md", "a.md", "b.md", the file "x.txt"
\* and the directory "d.md".
LoadFileNames == { <<65, 32, 98>> \o DotMd, <<97>> \o DotMd, <<98>> \o DotMd }

TxtName == <<120, 46, 116, 120, 116>>

DirName == <<100>> \o DotMd

\* Frontmatter of a file: no title, the titles "A", "a" and "A b!", and a
\* title that is a number.
LoadFields ==
  { <<>>,
    "title" :> StrVal(<<65>>),
    "title" :> StrVal(<<97>>),
    "title" :> StrVal(<<65, 32, 98, 33>>),
    "title" :> OtherVal }

LoadSources == { <<"filename">>, <<"field:", "title">> }

LoadFile(name, isDir, parses, fields) ==
  [Name |-> name, IsDir |-> isDir, Parses |-> parses, Fields |-> fields]

\* os.ReadDir returns the entries sorted by file name; a directory holds
\* each name once.
ListingOf(files) ==
  LET names == SortStrings({f.Name : f \in files})
  IN  [i \in 1..Len(names) |-> CHOOSE f \in files : f.Name = names[i]]

LoadInit ==
  /\ \E source \in LoadSources :
     \E present \in SUBSET LoadFileNames :
     \E parses \in [present -> BOOLEAN] :
     \E fields \in [present -> LoadFields] :
     \E others \in SUBSET { LoadFile(TxtName, FALSE, TRUE, <<>>),
                            LoadFile(DirName, TRUE, FALSE, <<>>) } :
       args = [fn      |-> "Load",
               source  |-> source,
               listing |-> ListingOf(
                 { LoadFile(n, FALSE, parses[n], fields[n]) : n \in present }
                   \cup others)]
  /\ rets = <<>>
  /\ NoBuild

\* One call of Load on a readable data directory.
LoadRun ==
  /\ args.fn = "Load"
  /\ rets = <<>>
  /\ rets' = <<[entities |-> MarkdownLoad(args.source, args.listing),
                err      |-> FALSE]>>
  /\ UNCHANGED args
  /\ UNCHANGED buildVars

\* One call of Load on a data directory that cannot be read.
LoadRunFail ==
  /\ args.fn = "Load"
  /\ rets = <<>>
  /\ rets' = <<[entities |-> <<>>, err |-> TRUE]>>
  /\ UNCHANGED args
  /\ UNCHANGED buildVars

LoadNext == LoadRun \/ LoadRunFail

SpecLoad == LoadInit /\ [][LoadNext]_vars

Loaded == args # <<>> /\ args.fn = "Load" /\ rets # <<>> /\ ~rets[1].err

\* C16: after loading, no two entities of the build share a slug.
C16_SlugsUnique ==
  Loaded =>
    \A i, j \in 1..Len(rets[1].entities) :
      i # j => rets[1].entities[i].Slug # rets[1].entities[j].Slug

\* With the slug taken from the file name the slugs are distinct, a
\* directory holding each name once.
C16_OnlyFilenameSlugsUnique ==
  (Loaded /\ args.source = <<"filename">>) =>
    \A i, j \in 1..Len(rets[1].entities) :
      i # j => rets[1].entities[i].Slug # rets[1].entities[j].Slug

IsSlugByte(c) == (c >= 97 /\ c <= 122) \/ (c >= 48 /\ c <= 57) \/ c = 45

\* Canonical slug form: lowercase letters, digits and single hyphens, with
\* no hyphen at either end.
IsCanonicalSlug(s) ==
  /\ \A i \in 1..Len(s) : IsSlugByte(s[i])
  /\ Len(s) > 0 => (s[1] # 45 /\ s[Len(s)] # 45)
  /\ \A i \in 1..(Len(s) - 1) : ~(s[i] = 45 /\ s[i + 1] = 45)

\* C17: every loaded entity's slug is in canonical slugified form,
\* whichever slug source is configured.
C17_SlugsCanonical ==
  Loaded =>
    \A i \in 1..Len(rets[1].entities) :
      IsCanonicalSlug(rets[1].entities[i].Slug)

\* A slug that was taken from a string field is canonical.
C17_FieldSlugsCanonical ==
  Loaded =>
    \A i \in 1..Len(rets[1].entities) :
      LET e == rets[1].entities[i]
      IN  (/\ args.source[1] = "field:"
           /\ "title" \in DOMAIN e.Fields
           /\ e.Fields["title"].t = "str") => IsCanonicalSlug(e.Slug)

\* ---------------------------------------------------------------------
\* RSS feeds of a build: the category entries (lines 317-324 of Build) and
\* output.GenerateRSSFeeds (line 378) under every RSS configuration.
\* ---------------------------------------------------------------------

\* A main feed path other than the default: "r.xml".
CustomFeedPath == <<114>> \o DotXml

\* The RSS settings of the configuration file: the category taxonomy is
\* "c", "d", or "z", which names no taxonomy.
RSSConfigs ==
  [Enabled          : BOOLEAN,
   MainFeed         : {<<>>, CustomFeedPath},
   CategoryFeeds    : BOOLEAN,
   CategoryTaxonomy : {<<99>>, <<100>>, <<122>>}]

RSSConfigOf(rss) == [BuildConfig EXCEPT !.RSS = rss]

\* The state of Build after the taxonomies are built.
RSSInit ==
  /\ \E shapes \in ShapeSeqs(BuildShapes, MaxEntities) :
     \E rss \in RSSConfigs :
     \E taxs \in BuildAll(EntitiesOf(shapes), RSSConfigOf(rss).Taxonomies,
                          NoEnrichment) :
       args = [fn         |-> "rss",
               entities   |-> EntitiesOf(shapes),
               cfg        |-> RSSConfigOf(rss),
               taxonomies |-> taxs]
  /\ rets = <<>>
  /\ NoBuild

\* Lines 317-324: categoryEntries, made empty at line 282, is filled.
RSSCategoryEntries ==
  /\ args.fn = "rss"
  /\ rets = <<>>
  /\ rets' = <<categoryEntriesOf(<<>>, args.taxonomies,
                                 args.cfg.RSS.CategoryTaxonomy)>>
  /\ UNCHANGED args
  /\ UNCHANGED buildVars

\* Line 378: the feeds are generated.
RSSGenerate ==
  /\ args.fn = "rss"
  /\ Len(rets) = 1
  /\ \E feeds \in GenerateRSSFeeds(args.entities, args.cfg, rets[1]) :
       rets' = Append(rets, feeds)
  /\ UNCHANGED args
  /\ UNCHANGED buildVars

RSSNext == RSSCategoryEntries \/ RSSGenerate

SpecRSS == RSSInit /\ [][RSSNext]_vars

RSSDone == args # <<>> /\ args.fn = "rss" /\ Len(rets) = 2

\* The Entries of the taxonomies that carry the designated feed name.
FeedEntries ==
  Flatten([t \in 1..Len(args.taxonomies) |->
             IF args.taxonomies[t].Name = args.cfg.RSS.CategoryTaxonomy
             THEN args.taxonomies[t].Entries ELSE <<>>])

MainFeedPath ==
  IF args.cfg.RSS.MainFeed = <<>> THEN FeedXml ELSE args.cfg.RSS.MainFeed

CategoryFeedPath(slug) ==
  args.cfg.RSS.CategoryTaxonomy \o Slash \o slug \o Slash \o FeedXml

FeedsAt(path) == {k \in 1..Len(rets[2]) : rets[2][k].RelativePath = path}

\* C18: with RSS disabled no feed is emitted; with RSS enabled there is
\* exactly one site-wide feed, listing every loaded entity, and, with
\* category feeds enabled, exactly one more feed per Entry of the
\* designated taxonomy and none else, each listing that Entry's members.
C18_FeedsEmitted ==
  RSSDone =>
    LET feeds == rets[2]
        rss   == args.cfg.RSS
    IN  /\ ~rss.Enabled => feeds = <<>>
        /\ rss.Enabled =>
             /\ Cardinality(FeedsAt(MainFeedPath)) = 1
             /\ \A k \in FeedsAt(MainFeedPath) :
                  feeds[k].Content = [i \in 1..Len(args.entities) |-> i]
             /\ ~rss.CategoryFeeds => Len(feeds) = 1
             /\ rss.CategoryFeeds =>
                  /\ Len(feeds) = 1 + Len(FeedEntries)
                  /\ \A e \in 1..Len(FeedEntries) :
                       /\ Cardinality(FeedsAt(CategoryFeedPath(FeedEntries[e].Slug))) = 1
                       /\ \A k \in FeedsAt(CategoryFeedPath(FeedEntries[e].Slug)) :
                            feeds[k].Content = FeedEntries[e].Entities

\* Three entities; the designated taxonomy "d" keeps the one Entry "a" of
\* two members while "c" has the Entries "a" and "b": the feeds are the
\* site-wide one and d/a/feed.xml.
C18_Witness ==
  /\ RSSDone
  /\ args.cfg.RSS.Enabled /\ args.cfg.RSS.CategoryFeeds
  /\ args.cfg.RSS.CategoryTaxonomy = <<100>>
  /\ Len(args.entities) = 3
  /\ Len(args.taxonomies) = 2
  /\ Len(args.taxonomies[1].Entries) = 2
  /\ Len(FeedEntries) = 1
  /\ Len(rets[2]) = 2
  /\ rets[2][2].RelativePath = <<100, 47, 97, 47>> \o FeedXml
  /\ Len(rets[2][2].Content) = 2

\* RSS is disabled and no feed is emitted though the taxonomy has Entries.
C18_WitnessDisabled ==
  /\ RSSDone
  /\ ~args.cfg.RSS.Enabled /\ args.cfg.RSS.CategoryFeeds
  /\ args.cfg.RSS.CategoryTaxonomy = <<99>>
  /\ Len(FeedEntries) = 2
  /\ rets[2] = <<>>

\* ---------------------------------------------------------------------
\* Frame of the build: what the render steps leave alone.
\* ---------------------------------------------------------------------

ConcurrentStage == pc \in {"dispatch", "wait"}

MaxNegPageSize == 2

\* A Go slice expression seq[lo:hi] panics unless 0 <= lo <= hi <= cap;
\* the slices the page loops cut have hi clamped to the length.
GoSlicePanics(seq, lo, hi) == lo < 0 \/ hi < lo \/ hi > Len(seq)

\* config.Load of a file with entities_per_page: raw, then the hub pages
\* of an Entry of n members or the all-entities pages of n entities.
PageSizeInit ==
  /\ \E n \in 0..MaxMembers, raw \in (-MaxNegPageSize)..MaxPageSize,
        kind \in {"hub", "all"} :
       /\ kind = "hub" => n >= 1
       /\ args = [fn      |-> "pageSize",
                  kind    |-> kind,
                  raw     |-> raw,
                  taxName |-> <<99>>,
                  entry   |-> EntryOfSize(n),
                  perPage |-> applyDefaults(
                                [RawConfigOf(<<>>) EXCEPT !.EntitiesPerPage = raw]
                              ).EntitiesPerPage]
  /\ rets = <<>>
  /\ NoBuild

Panicked == rets # <<>> /\ rets[Len(rets)].Panic

\* One pass of the hub page loop (part_008 lines 621-712); the slice
\* expression of line 631 may panic.
HubSizeStep ==
  /\ args.fn = "pageSize" /\ args.kind = "hub"
  /\ ~Panicked
  /\ LET page       == Len(rets) + 1
         pagination == ComputePagination(args.entry, page, args.perPage, args.taxName)
         members    == args.entry.Entities
         end        == IF pagination.EndIndex > Len(members) THEN Len(members)
                       ELSE pagination.EndIndex
     IN  /\ page <= hubTotalPages(args.entry, args.perPage)
         /\ rets' = Append(rets,
              IF pagination.StartIndex < Len(members)
                 /\ GoSlicePanics(members, pagination.StartIndex, end)
              THEN [Page |-> page, Panic |-> TRUE, PageEntities |-> <<>>]
              ELSE [Page |-> page, Panic |-> FALSE,
                    PageEntities |->
                      hubPage(args.taxName, args.entry, page, args.perPage).PageEntities])
  /\ UNCHANGED args
  /\ UNCHANGED buildVars

\* One pass of the all-entities page loop (part_008 lines 917-1017); the
\* slice expression of line 923 may panic.
AllSizeStep ==
  /\ args.fn = "pageSize" /\ args.kind = "all"
  /\ ~Panicked
  /\ LET page    == Len(rets) + 1
         members == args.entry.Entities
         start   == (page - 1) * args.perPage
         end     == IF start + args.perPage > Len(members) THEN Len(members)
                    ELSE start + args.perPage
     IN  /\ page <= hubTotalPages(args.entry, args.perPage)
         /\ rets' = Append(rets,
              IF GoSlicePanics(members, start, end)
              THEN [Page |-> page, Panic |-> TRUE, PageEntities |-> <<>>]
              ELSE [Page |-> page, Panic |-> FALSE,
                    PageEntities |-> GoSlice(members, start, end)])
  /\ UNCHANGED args
  /\ UNCHANGED buildVars

PageSizeNext == HubSizeStep \/ AllSizeStep

SpecPageSize == PageSizeInit /\ [][PageSizeNext]_vars

PageSizeLoopDone ==
  /\ args # <<>> /\ args.fn = "pageSize"
  /\ Panicked \/ Len(rets) >= hubTotalPages(args.entry, args.perPage)

\* C20: a configured page size of zero or less is replaced by 48 before
\* pagination, so the page loops run with a positive page size, none of
\* them fails, and at least one page is rendered for every Entry and for
\* the all-entities listing.
C20_PageSizeDefaulted ==
  /\ args.raw <= 0 => args.perPage = DefaultEntitiesPerPage
  /\ args.perPage >= 1
  /\ ~Panicked
  /\ PageSizeLoopDone => Len(rets) >= 1

\* What holds of the code: a page size of zero is replaced by 48, and
\* with a configured size of zero or more the loops render at least one
\* page and never fail.
C20_ZeroPageSizeDefaulted ==
  args.raw >= 0 =>
    /\ args.raw = 0 => args.perPage = DefaultEntitiesPerPage
    /\ args.perPage >= 1
    /\ ~Panicked
    /\ PageSizeLoopDone => Len(rets) >= 1

\* A negative page size reaches the loops: an Entry of three members gets
\* no hub page with the size -1.
C20_ReachedNoPage ==
  /\ PageSizeLoopDone
  /\ args.kind = "hub" /\ args.raw = -1
  /\ Len(args.entry.Entities) = 3
  /\ rets = <<>>

\* With the size -1 the first hub page of an Entry of one member panics.
C20_ReachedPanic ==
  /\ args.kind = "hub" /\ args.raw = -1
  /\ Len(args.entry.Entities) = 1
  /\ Panicked

\* ---------------------------------------------------------------------
\* Further properties of taxonomy.buildOne
\* ---------------------------------------------------------------------

\* The positions (entity, value index) whose resolved value slugifies to
\* the slug.
SuppliersOf(slug) ==
  {<<e, n>> \in (1..Len(args.entities)) \X (1..4) :
     /\ n <= Len(ResolvedValues(e))
     /\ ToSlug(ResolvedValues(e)[n]) = slug}

\* The first of them in entity-sequence order, and value order within an
\* entity.
FirstSupplier(slug) ==
  CHOOSE p \in SuppliersOf(slug) :
    \A q \in SuppliersOf(slug) :
      p[1] < q[1] \/ (p[1] = q[1] /\ p[2] <= q[2])

\* C21: an Entry's display name is the value of the first entity, in
\* entity-sequence order, whose resolved value slugifies to the Entry's
\* slug; later entities with another spelling of the slug are members of
\* the Entry and leave its name alone.
C21_FirstSpellingIsName ==
  \A r \in 1..Len(rets) : \A i \in 1..Len(rets[r].Entries) :
    LET entry == rets[r].Entries[i]
        first == FirstSupplier(entry.Slug)
    IN  /\ SuppliersOf(entry.Slug) # {}
        /\ entry.Name = ResolvedValues(first[1])[first[2]]
        /\ \A p \in SuppliersOf(entry.Slug) :
             \E k \in 1..Len(entry.Entities) : entry.Entities[k] = p[1]

\* The first entity has the value "B" and the second "b": the Entry "b"
\* is named "B" and has both as members.
C21_Witness ==
  /\ Len(rets) >= 1
  /\ Len(args.entities) = 2
  /\ ResolvedValues(1) = <<<<66>>>>
  /\ ResolvedValues(2) = <<<<98>>>>
  /\ Len(rets[1].Entries) = 1
  /\ rets[1].Entries[1].Slug = <<98>>
  /\ rets[1].Entries[1].Name = <<66>>
  /\ rets[1].Entries[1].Entities = <<1, 2>>

\* C24: a definition marked inverted builds a Taxonomy without Entries,
\* for every corpus and override table.
C24_InvertBuildsNothing ==
  \A r \in 1..Len(rets) :
    args.tc.Invert =>
      /\ rets[r].Entries = <<>>
      /\ rets[r].Name = args.tc.Name

\* An inverted definition over two entities with values, one of them from
\* the override table, was built with no Entries.
C24_Witness ==
  /\ Len(rets) >= 1
  /\ args.tc.Invert /\ args.tc.MinEntities = 1
  /\ Len(args.entities) = 2
  /\ ResolvedValues(1) # <<>> /\ ToSlug(ResolvedValues(1)[1]) # <<>>
  /\ ResolvedValues(2) # <<>>
  /\ FileSlug(2) \in DOMAIN args.enrichmentData
  /\ args.tc.EnrichmentOverrideField # NoField
  /\ rets[1].Entries = <<>>

\* How often the entity e is in the member list.
TimesIn(members, e) == Cardinality({k \in 1..Len(members) : members[k] = e})

\* C27: no Entry's member list contains the same entity more than once,
\* also when a multi-valued entity supplies two values of the same slug.
C27_MembersDistinct ==
  \A r \in 1..Len(rets) : \A i \in 1..Len(rets[r].Entries) :
    \A e \in 1..Len(args.entities) :
      TimesIn(rets[r].Entries[i].Entities, e) <= 1

\* An entity is in the member list once for each of its values that
\* slugifies to the Entry's slug.
C27_MemberPerValue ==
  \A r \in 1..Len(rets) : \A i \in 1..Len(rets[r].Entries) :
    \A e \in 1..Len(args.entities) :
      TimesIn(rets[r].Entries[i].Entities, e) =
        Cardinality({p \in SuppliersOf(rets[r].Entries[i].Slug) : p[1] = e})

\* The one entity of the corpus has the values "a" and "A"; with the
\* threshold 2 the Entry "a" is kept with that entity as both members.
C27_ReachedTwice ==
  /\ Len(rets) >= 1
  /\ Len(args.entities) = 1
  /\ args.tc.MinEntities = 2
  /\ Len(rets[1].Entries) = 1
  /\ rets[1].Entries[1].Entities = <<1, 1>>

\* C23: GroupByLetter returns the groups in strictly ascending lexical
\* order of their labels, no label twice, and the group '#', when there is
\* one, is the first, before every letter group.
C23_GroupsAscending ==
  rets # <<>> =>
    LET groups == rets[1]
    IN  /\ \A g, h \in 1..Len(groups) :
             g < h => StrLess(groups[g].Letter, groups[h].Letter)
        /\ \A g \in 1..Len(groups) :
             groups[g].Letter = Sentinel => g = 1

\* The names "a", "1x" and "Éa", met in that order, give the groups '#',
\* 'A' and the group of the first byte of 'É'.
C23_Witness ==
  /\ rets # <<>>
  /\ Len(args.entries) = 3
  /\ args.entries[1].Name = <<97>>
  /\ args.entries[2].Name = <<49, 120>>
  /\ args.entries[3].Name = <<195, 137, 97>>
  /\ Len(rets[1]) = 3
  /\ rets[1][1].Letter = Sentinel
  /\ rets[1][2].Letter = <<65>>
  /\ rets[1][1].Entries[1].Name = <<49, 120>>

\* ---------------------------------------------------------------------
\* Cross-references: the slug lookup over records that may share a slug,
\* the pairings of renderEntityPage and the favorites of the homepage.
\* ---------------------------------------------------------------------

MaxRefEntities == 2

\* Slugs of loaded records: "a" and "b"; a reference may also name "z".
RefSlugs == {<<97>>, <<98>>}

\* The pairings field of a record: missing, a string, and lists of slugs,
\* one of them with an item that is no string.
RefPairings ==
  { <<>>,
    <<StrVal(<<97>>)>>,
    <<ListVal(<<StrVal(<<97>>)>>)>>,
    <<ListVal(<<StrVal(<<122>>), StrVal(<<97>>)>>)>>,
    <<ListVal(<<StrVal(<<98>>), OtherVal, StrVal(<<122>>), StrVal(<<97>>)>>)>> }

\* The favorites file: not configured or unreadable (<<>>), or its list.
RefFavorites ==
  { <<>>, <<<<>>>>, <<<<<<97>>, <<122>>, <<98>>, <<97>>>>>> }

RefEntity(shape) ==
  [Slug   |-> shape.slug,
   Fields |-> IF shape.pairings = <<>> THEN <<>>
              ELSE ("pairings" :> shape.pairings[1])]

\* The state of Build after loading records whose slug comes from a field.
RefInit ==
  /\ \E shapes \in ShapeSeqs([slug : RefSlugs, pairings : RefPairings],
                             MaxRefEntities) :
     \E fav \in RefFavorites :
       args = [fn        |-> "resolve",
               entities  |-> [i \in 1..Len(shapes) |-> RefEntity(shapes[i])],
               favorites |-> fav]
  /\ rets = <<>>
  /\ NoBuild

\* Lines 185-205: the slug lookup is built and the favorites are loaded.
RefLoadFavorites ==
  /\ args.fn = "resolve"
  /\ rets = <<>>
  /\ LET m == SlugMapOf(args.entities)
     IN  rets' = <<[slugMap  |-> m,
                    resolved |-> IF args.favorites = <<>> THEN <<>>
                                 ELSE resolveSlugs(m, args.favorites[1])]>>
  /\ UNCHANGED args
  /\ UNCHANGED buildVars

\* Lines 452-460 of renderEntityPage for the next entity.
RefResolvePairings ==
  /\ args.fn = "resolve"
  /\ rets # <<>>
  /\ Len(rets) <= Len(args.entities)
  /\ rets' = Append(rets,
       [slugMap  |-> rets[1].slugMap,
        resolved |-> resolveSlugs(rets[1].slugMap,
                       GetStringSlice(args.entities[Len(rets)], "pairings"))])
  /\ UNCHANGED args
  /\ UNCHANGED buildVars

RefNext == RefLoadFavorites \/ RefResolvePairings

SpecRef == RefInit /\ [][RefNext]_vars

\* The slugs the k-th resolution was given: the favorites for k = 1, the
\* pairings of entity k - 1 after that.
RefList(k) ==
  IF k = 1 THEN (IF args.favorites = <<>> THEN <<>> ELSE args.favorites[1])
  ELSE LET e == args.entities[k - 1]
       IN  IF "pairings" \in DOMAIN e.Fields /\ e.Fields["pairings"].t = "list"
           THEN StringItems(e.Fields["pairings"].items) ELSE <<>>

LoadedSlugs == {args.entities[i].Slug : i \in 1..Len(args.entities)}

\* C22: resolving a cross-reference list yields, in list order, the entity
\* of every slug that is in the lookup and nothing for the others; a slug
\* that is not loaded is dropped and the resolution still has a result.
C22_UnresolvedDropped ==
  \A k \in 1..Len(rets) :
    LET known == SelectSeq(RefList(k), LAMBDA slug : slug \in LoadedSlugs)
        got   == rets[k].resolved
    IN  /\ Len(got) = Len(known)
        /\ \A n \in 1..Len(got) :
             /\ got[n] \in 1..Len(args.entities)
             /\ args.entities[got[n]].Slug = known[n]

\* The first record's pairings "b", a number, "z", "a" resolve to the
\* records of "b" and "a" with "z" dropped, and the second record's
\* resolution follows.
C22_Witness ==
  /\ Len(rets) = 3
  /\ Len(args.entities) = 2
  /\ args.entities[1].Slug = <<97>> /\ args.entities[2].Slug = <<98>>
  /\ RefList(2) = <<<<98>>, <<122>>, <<97>>>>
  /\ rets[2].resolved = <<2, 1>>
  /\ RefList(1) = <<<<97>>, <<122>>, <<98>>, <<97>>>>
  /\ rets[1].resolved = <<1, 2, 1>>

\* C25: the slug lookup maps a slug to the last loaded record of that
\* slug, and every cross-reference to the slug resolves to that record.
C25_LastRecordWins ==
  \A k \in 1..Len(rets) :
    /\ DOMAIN rets[k].slugMap = LoadedSlugs
    /\ \A i \in 1..Len(args.entities) :
         /\ rets[k].slugMap[args.entities[i].Slug] >= i
         /\ args.entities[rets[k].slugMap[args.entities[i].Slug]].Slug
              = args.entities[i].Slug
    /\ \A n \in 1..Len(rets[k].resolved) :
         \A i \in 1..Len(args.entities) :
           args.entities[i].Slug = args.entities[rets[k].resolved[n]].Slug
             => i <= rets[k].resolved[n]

\* Two records have the slug "a"; the second one's reference to "a"
\* resolves to the second record, itself.
C25_Witness ==
  /\ Len(rets) = 3
  /\ Len(args.entities) = 2
  /\ args.entities[1].Slug = <<97>> /\ args.entities[2].Slug = <<97>>
  /\ rets[1].slugMap[<<97>>] = 2
  /\ RefList(3) = <<<<97>>>>
  /\ rets[3].resolved = <<2>>
  /\ rets[1].resolved = <<2, 2>>

\* ---------------------------------------------------------------------
\* countFieldDistribution (part_008 lines 1177-1199)
\* ---------------------------------------------------------------------

\* Entity.GetString: the field when it is a string, and "" otherwise.
GetString(e, key) ==
  IF key \in DOMAIN e.Fields /\ e.Fields[key].t = "str"
  THEN e.Fields[key].s ELSE <<>>

\* The map counts of lines 1180-1186.
fieldCounts(ents, field) ==
  LET vals == {GetString(ents[i], field) : i \in 1..Len(ents)} \ {<<>>}
  IN  [v \in vals |->
         Cardinality({i \in 1..Len(ents) : GetString(ents[i], field) = v})]

\* The lists countFieldDistribution may return: the map is ranged over in
\* any order, sort.Slice compares the counts alone and is not stable, so
\* pairs of equal count come out in any order; then the list is cut.
countFieldDistribution(ents, field, limit) ==
  LET counts == fieldCounts(ents, field)
      pairs  == {[k \in 1..Len(order) |->
                    [Name |-> order[k], Count |-> counts[order[k]]]] :
                 order \in MapOrders(DOMAIN counts)}
      sorted == {p \in UNION {Rearrangements(q) : q \in pairs} :
                   \A i, j \in 1..Len(p) : i < j => p[i].Count >= p[j].Count}
  IN  {IF limit > 0 /\ Len(p) > limit THEN SubSeq(p, 1, limit) ELSE p :
       p \in sorted}

MaxDistEntities == 3
MaxDistLimit == 2

\* The counted field of a record: missing, "x", "y", or a number.
DistFields ==
  { <<>>,
    "recipe_category" :> StrVal(<<120>>),
    "recipe_category" :> StrVal(<<121>>),
    "recipe_category" :> OtherVal }

DistInit ==
  /\ \E fields \in ShapeSeqs(DistFields, MaxDistEntities),
        limit \in 0..MaxDistLimit :
       args = [fn       |-> "countFieldDistribution",
               entities |-> [i \in 1..Len(fields) |->
                               [Slug |-> FileSlug(i), Fields |-> fields[i]]],
               field    |-> "recipe_category",
               limit    |-> limit]
  /\ rets = <<>>
  /\ NoBuild

\* One run of countFieldDistribution on the fixed input.
DistRun ==
  /\ args.fn = "countFieldDistribution"
  /\ Len(rets) < Runs
  /\ \E dist \in countFieldDistribution(args.entities, args.field, args.limit) :
       rets' = Append(rets, dist)
  /\ UNCHANGED args
  /\ UNCHANGED buildVars

SpecDist == DistInit /\ [][DistRun]_vars

\* C30: for a fixed entity list, field and limit, every run of
\* countFieldDistribution returns the same ordered list of pairs.
C30_DistributionDeterministic ==
  \A r, s \in 1..Len(rets) : rets[r] = rets[s]

\* What holds of every run: the pairs carry the right counts, in
\* descending order of count, and two runs agree when no two values have
\* the same count.
C30_DeterministicWithoutTies ==
  LET counts == fieldCounts(args.entities, args.field)
  IN  /\ \A r \in 1..Len(rets) :
           /\ \A i \in 1..Len(rets[r]) :
                /\ rets[r][i].Name \in DOMAIN counts
                /\ rets[r][i].Count = counts[rets[r][i].Name]
           /\ \A i, j \in 1..Len(rets[r]) :
                i < j => rets[r][i].Count >= rets[r][j].Count
      /\ (\A v, w \in DOMAIN counts : v # w => counts[v] # counts[w]) =>
           \A r, s \in 1..Len(rets) : rets[r] = rets[s]

\* Two records with the values "x" and "y" and the limit 1: one run
\* returned the pair of "x" alone and the next the pair of "y" alone.
C30_ReachedDifferentRuns ==
  /\ Len(rets) = 2
  /\ Len(args.entities) = 2
  /\ args.limit = 1
  /\ rets[1] = <<[Name |-> <<120>>, Count |-> 1]>>
  /\ rets[2] = <<[Name |-> <<121>>, Count |-> 1]>>

\* ---------------------------------------------------------------------
\* The failure counter of the entity stage
\* ---------------------------------------------------------------------

\* The entities whose call of renderEntityPage returned an error.
FailedEntities == {i \in 1..Len(workers) : workers[i].err}

\* The sitemap entries of entity pages.
EntityEntries ==
  {k \in 1..Len(sitemapEntries) :
     \E i \in 1..Len(entities) :
       sitemapEntries[k].Loc = LocOfFile(EntityFile(i))}

\* C29: when the entity stage has ended, the failure counter is the number
\* of entities whose render or write returned an error, whatever the
\* interleaving; an entity has failed exactly when it has no sitemap
\* entry, so counter and entity sitemap entries add up to the number of
\* entities.
C29_FailureCounterExact ==
  (EntityStageOver /\ failedStep \notin {"load", "prepare"}) =>
    /\ entityErrors = Cardinality(FailedEntities)
    /\ \A i \in 1..Len(entities) :
         workers[i].err <=> EntriesAt(LocOfFile(EntityFile(i))) = {}
    /\ entityErrors + Cardinality(EntityEntries) = Len(entities)

\* The stage has just ended for three entities of which the first and the
\* third failed; the second has the only entry.
C29_Witness ==
  /\ pc = "searchIndex"
  /\ Len(entities) = 3
  /\ FailedEntities = {1, 3}
  /\ entityErrors = 2
  /\ Len(sitemapEntries) = 1
  /\ sitemapEntries[1].Loc = LocOfFile(EntityFile(2))

\* ---------------------------------------------------------------------
\* Termination of the entity stage
\* ---------------------------------------------------------------------

\* Fair scheduling of the dispatch loop and of the goroutines: a step that
\* stays possible is taken; every render returns, with or without error.
SpecPoolFair ==
  /\ PoolInit /\ [][PoolNext]_vars
  /\ WF_vars(PoolAdd) /\ WF_vars(PoolDispatchDone) /\ WF_vars(PoolAcquire)
  /\ WF_vars(PoolGo) /\ WF_vars(PoolRenderOk \/ PoolRenderFail)
  /\ WF_vars(PoolRelease) /\ WF_vars(PoolWgDone) /\ WF_vars(PoolWait)

\* The steps the stage still has to take: three of the loop for every
\* entity not yet started, the end of the loop and the return of Wait, and
\* for every goroutine its render, its release and its Done.
PoolStepsLeft ==
  LET unborn == args.entities - (next - 1)
  IN  3 * unborn
      - (IF pc = "acquire" THEN 1 ELSE IF pc = "go" THEN 2 ELSE 0)
      + (IF pc \in {"add", "acquire", "go"} THEN 2
         ELSE IF pc = "wait" THEN 1 ELSE 0)
      + 3 * unborn + 3 * pool.render + 2 * pool.release + pool.wgDone

\* C26: under fair scheduling, with every render returning, the entity
\* stage terminates also for more entities than the pool has slots: as
\* long as Wait has not returned some step of the loop or of a goroutine
\* is possible (the channel holds one token per goroutine that is still
\* to release its slot, so the loop is blocked only while one of them is
\* running), every step brings the end one step nearer, and
\* at the end every entity has been started once and has finished.
C26_EntityStageTerminates ==
  /\ [](pc # "searchIndex" => ENABLED <<PoolNext>>_vars)
  /\ [](sem = pool.render + pool.release + (IF pc = "go" THEN 1 ELSE 0))
  /\ [](PoolStepsLeft >= 0)
  /\ [][PoolStepsLeft' = PoolStepsLeft - 1]_vars
  /\ [](pc = "searchIndex" =>
          /\ PoolStepsLeft = 0
          /\ next = args.entities + 1
          /\ pool.done = args.entities)

\* Wait has returned after 33 entities, one more than the pool has slots,
\* some of which failed.
C26_Witness ==
  /\ pc = "searchIndex"
  /\ args.entities = PoolSize + 1
  /\ pool.done = PoolSize + 1
  /\ entityErrors = 2
  /\ sem = 0 /\ wg = 0

\* The same stage with its goroutines told apart and the sitemap mutex,
\* for the few entities of the build model.
SpecFair ==
  /\ Init /\ [][Next]_vars
  /\ WF_vars(Dispatch) /\ WF_vars(DispatchDone) /\ WF_vars(Wait)
  /\ \A i \in 1..MaxEntities :
       /\ WF_vars(i <= Len(workers) /\ (RenderEntity(i) \/ RenderEntityFail(i)))
       /\ WF_vars(i <= Len(workers) /\ SitemapLock(i))
       /\ WF_vars(i <= Len(workers) /\ SitemapAppend(i))
       /\ WF_vars(i <= Len(workers) /\ CountError(i))
       /\ WF_vars(i <= Len(workers) /\ Release(i))
       /\ WF_vars(i <= Len(workers) /\ WgDone(i))

\* Once the dispatch loop starts, Wait returns.
EntityStageEnds == (pc = "dispatch") ~> (pc = "searchIndex")

\* ---------------------------------------------------------------------
\* The pages of one build and their paths
\* ---------------------------------------------------------------------

MaxPathEntities == 3

\* "index"
IndexSlug == <<105, 110, 100, 101, 120>>

\* Slugs of records, from the files index.md, e1.md and e2.md.
PathSlugs == {IndexSlug, FileSlug(1), FileSlug(2)}

\* Categories of records: "Index", "a" and "a page 2".
PathCategories ==
  { <<73, 110, 100, 101, 120>>, <<97>>, <<97, 32, 112, 97, 103, 101, 32, 50>> }

\* One taxonomy "c" over the category, with letter pages from two Entries
\* on, and one record per hub page.
PathConfig ==
  applyDefaults(
    [RawConfigOf(<<[Name |-> <<99>>, Field |-> "category",
                    MultiValue |-> FALSE, MinEntities |-> 1,
                    LetterPageThreshold |-> 2, Invert |-> FALSE,
                    EnrichmentOverrideField |-> NoField]>>)
       EXCEPT !.EntitiesPerPage = 1])

\* The records of a data directory: their file names, hence their slugs,
\* differ.
PathInit ==
  /\ \E shapes \in ShapeSeqs([slug : PathSlugs, category : PathCategories],
                             MaxPathEntities) :
       /\ \A i, j \in 1..Len(shapes) : i # j => shapes[i].slug # shapes[j].slug
       /\ args = [fn       |-> "pages",
                  entities |-> [i \in 1..Len(shapes) |->
                                  [Slug   |-> shapes[i].slug,
                                   Fields |-> ("category" :>
                                                 StrVal(shapes[i].category))]]]
  /\ rets = <<>>
  /\ NoBuild

\* The pages a build without failure emits, in the order of the steps of
\* Build: entity pages, the pages of every taxonomy, the all-entities
\* pages, the homepage.
PathRun ==
  /\ args.fn = "pages"
  /\ rets = <<>>
  /\ \E taxs \in BuildAll(args.entities, PathConfig.Taxonomies, NoEnrichment) :
       rets' = <<[i \in 1..Len(args.entities) |-> entityPage(args.entities[i], i)]
                 \o Flatten([t \in 1..Len(taxs) |->
                               taxonomyPages(taxs[t], PathConfig.EntitiesPerPage)])
                 \o allEntitiesPages(args.entities, PathConfig.EntitiesPerPage)
                 \o <<homepage(args.entities)>>>>
  /\ UNCHANGED args
  /\ UNCHANGED buildVars

SpecPaths == PathInit /\ [][PathRun]_vars

\* C28: within one build no two page emissions write the same output file
\* or record the same sitemap URL.
C28_PathsDistinct ==
  rets # <<>> =>
    \A j, k \in 1..Len(rets[1]) :
      j # k => /\ rets[1][j].File # rets[1][k].File
               /\ rets[1][j].Path # rets[1][k].Path

\* What holds of the code: the pages of records and categories whose slug
\* is neither "index" nor of the form of a later hub page are written to
\* pairwise distinct files under pairwise distinct URLs.
C28_PlainSlugsDistinct ==
  (/\ rets # <<>>
   /\ \A i \in 1..Len(args.entities) :
        /\ args.entities[i].Slug # IndexSlug
        /\ args.entities[i].Fields["category"].s = <<97>>) =>
    \A j, k \in 1..Len(rets[1]) :
      j # k => /\ rets[1][j].File # rets[1][k].File
               /\ rets[1][j].Path # rets[1][k].Path

\* The page of the record index.md and the homepage are both written to
\* index.html under the URL /index.html.
C28_ReachedHomepageOverwrite ==
  /\ rets # <<>>
  /\ Len(args.entities) = 1
  /\ rets[1][1].Step = "entity"
  /\ rets[1][Len(rets[1])].Step = "homepage"
  /\ rets[1][1].File = rets[1][Len(rets[1])].File
  /\ rets[1][1].Path = rets[1][Len(rets[1])].Path

\* The second hub page of the Entry "a" and the first of the Entry
\* "a-page-2" are the same file under the same URL.
C28_ReachedHubOverwrite ==
  /\ rets # <<>>
  /\ \E j, k \in 1..Len(rets[1]) :
       /\ j < k
       /\ rets[1][j].Step = "hub" /\ rets[1][k].Step = "hub"
       /\ rets[1][j].File = rets[1][k].File
       /\ rets[1][j].Path = rets[1][k].Path
       /\ rets[1][j].Content # rets[1][k].Content

\* The hub page of the Entry "index" is the file of the taxonomy index.
C28_ReachedIndexOverwrite ==
  /\ rets # <<>>
  /\ \E j, k \in 1..Len(rets[1]) :
       /\ rets[1][j].Step = "hub" /\ rets[1][k].Step = "index"
       /\ rets[1][j].File = rets[1][k].File

====
